---- MODULE Spec2Model ----
(***************************************************************************)
(* The local media store of the respiratory-sound recorder: the recording  *)
(* files of the managed directory and the metadata index kept as one JSON  *)
(* document in AsyncStorage.  Two implementations are modelled:            *)
(*   "utils"   : utils/storage (saveRecordingMetadata, getRecordings,      *)
(*               deleteRecording, clearAllRecordings, updateRecording)     *)
(*               with utils/audio saveRecording and the caller in          *)
(*               app/(tabs)/record.tsx that builds the metadata seed;      *)
(*   "service" : src/services/storageService.js.                           *)
(* Every `await` of the code is one step of the calling process, so two    *)
(* calls interleave exactly where the JavaScript event loop lets them.     *)
(* The recording session that feeds the store is modelled with it:         *)
(*   "utils"   : the handlers of app/(tabs)/record.tsx over utils/audio    *)
(*               startRecording / stopRecording / saveRecording;           *)
(*   "service" : src/screens/RecordScreen.js over src/services/            *)
(*               audioService.js and its module-level recording handle.    *)
(***************************************************************************)
EXTENDS Integers, Sequences, FiniteSets, TLC

\* ---------------------------------------------------------------- bounds
MaxClock      == 1   \* Date.now() takes the values 0..MaxClock
MaxSaves      == 2   \* save calls started in one behaviour
MaxUpdates    == 1   \* update calls started in one behaviour
MaxFaults     == 1   \* I/O calls that throw in one behaviour
MaxExtDeletes == 1   \* backing files removed from outside the store
MaxCalls      == 3   \* calls started in one behaviour of two interleaved processes
CaptureBytes  == 1   \* size of the file a capture leaves behind (any positive number)
MaxStarts     == 2   \* start calls (Audio.Recording objects created) in one behaviour
StepMs        == 1500 \* milliseconds between two readings of the capture's elapsed time
MaxElapsedSteps == 2 \* the elapsed time of a capture takes the values 0..MaxElapsedSteps * StepMs
MaxTimers     == 2   \* interval timers live at once
MaxAnalyses   == 2   \* analyses started in one behaviour
MaxDispatches == 3   \* recordings added to or deleted from the global state
MaxRestarts   == 1   \* launches of the application after the first
MaxSamples    == 9   \* the audio buffer has 0..MaxSamples samples
MaxFftSize    == 8   \* fftSize takes the values 0..MaxFftSize
MaxHopSize    == 3   \* hopSize takes the values 1..MaxHopSize

MIN_RECORDING_DURATION == 3   \* seconds (RecordScreen.js)

Procs    == {"p1", "p2"}   \* concurrent async calls
SeqProcs == {"p1"}         \* one call at a time
Impls    == {"utils", "service"}
Kinds    == {"cough"}           \* recordingType of the record screen (its default)
SessionKinds == {"cough", "breath"} \* the type parameter the record screen is opened with
Handlers == {"h1", "h2"}        \* handler invocations in progress
ObjIds   == 1..MaxStarts        \* the Audio.Recording objects, by serial number

VARIABLES
    impl,       \* which implementation this behaviour runs
    dirExists,  \* the managed directory exists
    files,      \* file names present in the managed directory
    index,      \* the persisted index document: a sequence of entries
    now,        \* the reading of Date.now()
    proc,       \* per async call: operation, position, locals, result
    nSaves,     \* save calls started
    nSavedOk,   \* save calls that reported success
    nUpdates,   \* update calls started
    nonSave,    \* a delete, clearAll, update or outside deletion has started
    faults,     \* I/O calls that have thrown
    nExtDel,    \* backing files removed from outside the store
    nCalls,     \* calls started (counted where processes interleave)
    handle,     \* the capture handle the app holds: recording.current of
                \* record.tsx, the module-level recording of audioService (0: null)
    objs,       \* the state of every Audio.Recording object
    devMs,      \* elapsed milliseconds of the capture, as the device reports them
    ui,         \* the screen's React state and its interval timer
    hs,         \* per handler invocation: operation, position, locals, outcome
    sound,      \* audioService holds a loaded playback sound
    nStarts,    \* start calls made
    dsp,        \* the call of the signal processor (utils/fft.js): arguments, result
    app         \* AppProvider: state.recordings, the persisted 'recordings'
                \* document, the persist effect in progress, the analysis in progress

sessVars == <<handle, objs, devMs, ui, hs, sound, nStarts>>

dspVars == <<dsp>>
appVars == <<app>>

vars == <<impl, dirExists, files, index, now, proc, nSaves, nSavedOk,
          nUpdates, nonSave, faults, nExtDel, nCalls, sessVars, dspVars, appVars>>

\* ------------------------------------------------------------ data model
NoId    == <<"none", 0>>
NoEntry == [id |-> NoId, uri |-> NoId, type |-> "none", createdAt |-> 0,
            duration |-> 0, fileSize |-> 0, analysisResult |-> "none"]
UnknownId == <<"unknown", 0>>
PatchedId == <<"patched", 0>>

\* The partial objects update() is called with.
Patches == { [analysisResult |-> "r1"],
             [id |-> PatchedId, createdAt |-> 0] }

\* { ...recording, ...updates }: every field of updates overrides.
SpreadMerge(recording, updates) ==
    [id             |-> IF "id" \in DOMAIN updates THEN updates.id ELSE recording.id,
     uri            |-> IF "uri" \in DOMAIN updates THEN updates.uri ELSE recording.uri,
     type           |-> IF "type" \in DOMAIN updates THEN updates.type ELSE recording.type,
     createdAt      |-> IF "createdAt" \in DOMAIN updates THEN updates.createdAt
                        ELSE recording.createdAt,
     duration       |-> IF "duration" \in DOMAIN updates THEN updates.duration
                        ELSE recording.duration,
     fileSize       |-> IF "fileSize" \in DOMAIN updates THEN updates.fileSize
                        ELSE recording.fileSize,
     analysisResult |-> IF "analysisResult" \in DOMAIN updates THEN updates.analysisResult
                        ELSE recording.analysisResult]

Range(s) == { s[k] : k \in 1..Len(s) }
Ids(s)   == { s[k].id : k \in 1..Len(s) }
Uris(s)  == { s[k].uri : k \in 1..Len(s) }

\* recordings.find(r => r.id === id): the first match, or NoEntry (undefined).
Find(s, id) ==
    IF id \in Ids(s)
    THEN s[CHOOSE k \in 1..Len(s) : s[k].id = id /\ \A j \in 1..(k-1) : s[j].id # id]
    ELSE NoEntry

\* Faulty variant of WithoutId: the filter keeps every entry.
WithoutId_KeepAll(s, id) == s

\* recordings.filter(r => r.id !== id)
WithoutId(s, id) == SelectSeq(s, LAMBDA r : r.id # id)

\* recordings.map(r => r.id === id ? { ...r, ...updates } : r)
MapUpdate(s, id, updates) ==
    [k \in 1..Len(s) |-> IF s[k].id = id THEN SpreadMerge(s[k], updates) ELSE s[k]]

\* Array.prototype.sort with (a, b) => time(b.createdAt) - time(a.createdAt):
\* newest first, stable.
RECURSIVE InsertDesc(_, _)
InsertDesc(sorted, r) ==
    IF sorted = <<>> THEN <<r>>
    ELSE IF Head(sorted).createdAt >= r.createdAt
         THEN <<Head(sorted)>> \o InsertDesc(Tail(sorted), r)
         ELSE <<r>> \o sorted

RECURSIVE SortNewestFirst(_)
SortNewestFirst(s) ==
    IF s = <<>> THEN <<>>
    ELSE InsertDesc(SortNewestFirst(SubSeq(s, 1, Len(s) - 1)), s[Len(s)])

\* ------------------------------------------------------------ processes
IdleProc ==
    [op |-> "none", pc |-> "idle", id |-> NoId, seed |-> NoEntry,
     srcExists |-> FALSE, updates |-> [analysisResult |-> "none"],
     raw |-> <<>>, valid |-> <<>>, i |-> 0, recs |-> <<>>,
     ent |-> NoEntry, target |-> NoEntry, out |-> <<>>,
     res |-> "none", fault |-> "none",
     pre |-> [index |-> <<>>, files |-> {}, nExtDel |-> 0]]

Snapshot   == [index |-> index, files |-> files, nExtDel |-> nExtDel]
NoSnapshot == [index |-> <<>>, files |-> {}, nExtDel |-> 0]

Quiet(p) == proc[p].pc \in {"idle", "done"}

Done(p, op) == proc[p].op = op /\ proc[p].pc = "done"

\* No file has vanished from outside since the call of p started.
Undisturbed(p) == proc[p].pre.nExtDel = nExtDel

\* A call is started either alone ("seq": its pre-state is recorded for the
\* postconditions) or among interleaved calls ("conc": it is counted).
SnapshotFor(mode) == IF mode = "seq" THEN Snapshot ELSE NoSnapshot
CallBudget(mode) ==
    /\ mode = "conc" => nCalls < MaxCalls
    /\ nCalls' = IF mode = "conc" THEN nCalls + 1 ELSE nCalls

\* recordingResult of RecordScreen.js; null is NoResult.
NoResult == [uri |-> NoId, duration |-> 0, size |-> 0]

\* The screen before anything was pressed.  busy is isSaving (record.tsx) or
\* isProcessing (RecordScreen.js); dur is recordingDuration in milliseconds;
\* timers counts the live intervals, timerRef says whether the interval
\* timerRef.current names is live; recordingType is params.type || 'cough'
\* of record.tsx, fixed for as long as the screen is mounted.
IdleUi == [isRecording |-> FALSE, isPaused |-> FALSE, busy |-> FALSE, dur |-> 0,
           result |-> NoResult, timers |-> 0, timerRef |-> FALSE,
           recordingType |-> "cough"]

\* A handler invocation that has not started.
IdleHandler ==
    [op |-> "none", pc |-> "idle", obj |-> 0, cPaused |-> FALSE, durMs |-> 0,
     kind |-> "none", res |-> "none", fault |-> "none", clres |-> "none",
     saveRes |-> "none",
     pre |-> [handle |-> 0, index |-> <<>>, devMs |-> 0]]

\* What a handler invocation finds when it is called.
HSnapshot == [handle |-> handle, index |-> index, devMs |-> devMs]

\* The control that calls the handler is on the screen and enabled.
\* record.tsx shows the start button while isRecording is false, the pause
\* and stop buttons (disabled={isSaving}) while it is true.  RecordScreen.js
\* has one record button (disabled={isProcessing}) that stops while
\* isRecording is true and starts otherwise, and a save button
\* (disabled={isProcessing}).
Rendered(op) ==
    CASE op = "start" -> ~ui.isRecording /\ (impl = "service" => ~ui.busy)
      [] op = "pause" -> ui.isRecording /\ ~ui.busy
      [] op = "stop"  -> ui.isRecording /\ ~ui.busy
      [] op = "saveResult" -> ~ui.busy

\* A handler is called from the screen ("screen") or in any state ("any").
Callable(op, gate) == gate = "any" \/ Rendered(op)

HQuiet(h) == hs[h].pc \in {"idle", "done"}

TypeOK ==
    /\ impl \in Impls
    /\ dirExists \in BOOLEAN
    /\ now \in 0..MaxClock
    /\ nSaves \in 0..MaxSaves
    /\ nSavedOk \in 0..MaxSaves
    /\ nUpdates \in 0..(MaxUpdates + MaxAnalyses)
    /\ faults \in 0..MaxFaults
    /\ nonSave \in BOOLEAN
    /\ nExtDel \in 0..MaxExtDeletes
    /\ handle \in {0} \cup ObjIds
    /\ devMs \in 0..(MaxElapsedSteps * StepMs)
    /\ ui.timers \in 0..MaxTimers
    /\ sound \in BOOLEAN
    /\ nStarts \in 0..MaxStarts
    /\ dsp.frames \in 0..(MaxSamples + 1)
    /\ app.nOps \in 0..(MaxDispatches + MaxAnalyses)
    /\ app.nRestarts \in 0..MaxRestarts

\* No call of the signal processor was made.
NoCall == [fn |-> "none", pc |-> "idle", L |-> 0, fftSize |-> 0, hopSize |-> 1,
           levels |-> {}, res |-> "none", frames |-> 0, lens |-> {}, values |-> {}]

InitStore(k) ==
    /\ impl \in Impls
    /\ dirExists = FALSE
    /\ files = {}
    /\ index = <<>>
    /\ now = 0
    /\ proc = [p \in Procs |-> IdleProc]
    /\ nSaves = 0
    /\ nSavedOk = 0
    /\ nUpdates = 0
    /\ nonSave = FALSE
    /\ faults = 0
    /\ nExtDel = 0
    /\ nCalls = 0
    /\ handle = 0
    /\ objs = [o \in ObjIds |-> "none"]
    /\ devMs = 0
    /\ ui = [IdleUi EXCEPT !.recordingType = k]
    /\ hs = [h \in Handlers |-> IdleHandler]
    /\ sound = FALSE
    /\ nStarts = 0

\* A run of AppProvider's persistState effect over the recordings of the
\* render that started it, awaiting its first AsyncStorage call.
PersistRun(recordings) == [pc |-> "ps_user", snap |-> recordings]

\* AppProvider mounted: initialState, nothing persisted under 'recordings',
\* loadPersistedState and the first persistState started.  run holds the
\* AsyncStorage calls awaited by persistState runs, in the order issued.
NoAnalysis == [id |-> NoId, result |-> "none", pc |-> "idle", pre |-> <<>>]
InitialApp == [recordings |-> <<>>, doc |-> <<>>, run |-> <<PersistRun(<<>>)>>,
               load |-> "ld_user", last |-> "none", analysis |-> NoAnalysis,
               nOps |-> 0, nRestarts |-> 0]

InitWith(k) == InitStore(k) /\ dsp = NoCall /\ app = InitialApp

\* The state after construction, the record screen opened without a type.
Init == InitWith("cough")

\* The same, the screens of src/src over audioService and storageService.
ServiceInit == Init /\ impl = "service"

\* The same, the record screen of record.tsx opened with either type.
SessionInit ==
    \E k \in SessionKinds : InitWith(k) /\ (impl = "service" => k = "cough")


\* ------------------------------------------------- getRecordings (shared)
\* What getRecordings returns for the entries that passed the file check:
\* utils/storage sorts them newest-first, storageService returns them as read.
ListResult(valid) ==
    IF impl = "utils" THEN SortNewestFirst(valid) ELSE valid

\* Faulty variant of NeedsRewrite: the pruned list is never written back.
NeedsRewrite_Never(valid, raw) == FALSE

\* "if (validRecordings.length !== recordings.length)" (utils/storage) and
\* "if (validRecordings.length < recordings.length)" (storageService).
NeedsRewrite(valid, raw) ==
    IF impl = "utils" THEN Len(valid) # Len(raw) ELSE Len(valid) < Len(raw)

\* The entries a file check keeps after looking at entry r.
KeepIfExists(valid, r, fs) ==
    IF r.uri \in fs THEN Append(valid, r) ELSE valid

\* A finished call: the locals of the call are gone, its result stays.
Finish(r, result) ==
    [r EXCEPT !.pc = "done", !.res = result,
              !.raw = <<>>, !.valid = <<>>, !.i = 0, !.recs = <<>>]

\* The continuation of the caller once getRecordings has returned `result`.
AfterGet(r, result) ==
    CASE r.op = "list" ->
           [Finish(r, "ok") EXCEPT !.out = result]
      [] r.op = "save" ->
           [r EXCEPT !.recs = result, !.pc = "sv_write", !.raw = <<>>, !.valid = <<>>, !.i = 0]
      [] r.op = "update" ->
           [r EXCEPT !.recs = result, !.pc = "upd_write", !.raw = <<>>, !.valid = <<>>, !.i = 0]
      [] r.op = "delete" ->
           LET found == Find(result, r.id) IN
           IF found = NoEntry
           THEN Finish(r, IF impl = "utils" THEN "ok" ELSE "error")
           ELSE [r EXCEPT !.recs = result, !.target = found,
                          !.pc = IF impl = "utils" THEN "del_info" ELSE "del_file",
                          !.raw = <<>>, !.valid = <<>>, !.i = 0]
      [] r.op = "clearAll" ->
           [r EXCEPT !.recs = result, !.raw = <<>>, !.valid = <<>>,
                     !.i = IF result = <<>> THEN 0 ELSE 1,
                     !.pc = IF result = <<>> THEN "clr_remove" ELSE "clr_info"]

\* storageService.getRecordings: await ensureDirectoryExists()
getRecordings_ensure(p) ==
    /\ proc[p].pc = "gr_ensure"
    /\ dirExists' = TRUE
    /\ proc' = [proc EXCEPT ![p].pc = "gr_read"]
    /\ UNCHANGED <<impl, files, index, now, nSaves, nSavedOk, nUpdates, nonSave, faults, nExtDel, nCalls, sessVars, dspVars, appVars>>

\* await AsyncStorage.getItem(KEY); an absent or empty document returns [].
getRecordings_getItem(p) ==
    /\ proc[p].pc = "gr_read"
    /\ proc' = [proc EXCEPT ![p] =
          IF index = <<>> THEN AfterGet(proc[p], <<>>)
          ELSE [proc[p] EXCEPT !.raw = index, !.valid = <<>>, !.i = 1, !.pc = "gr_check"]]
    /\ UNCHANGED <<impl, dirExists, files, index, now, nSaves, nSavedOk, nUpdates, nonSave, faults, nExtDel, nCalls, sessVars, dspVars, appVars>>

\* One round of the loop: await FileSystem.getInfoAsync(recording.uri).
getRecordings_getInfo(p) ==
    /\ proc[p].pc = "gr_check"
    /\ LET r     == proc[p]
           valid == KeepIfExists(r.valid, r.raw[r.i], files)
       IN proc' = [proc EXCEPT ![p] =
             IF r.i < Len(r.raw)
             THEN [r EXCEPT !.valid = valid, !.i = r.i + 1]
             ELSE IF NeedsRewrite(valid, r.raw)
                  THEN [r EXCEPT !.valid = valid, !.pc = "gr_write"]
                  ELSE AfterGet(r, ListResult(valid))]
    /\ UNCHANGED <<impl, dirExists, files, index, now, nSaves, nSavedOk, nUpdates, nonSave, faults, nExtDel, nCalls, sessVars, dspVars, appVars>>

\* await AsyncStorage.setItem(KEY, JSON.stringify(validRecordings))
getRecordings_setItem(p) ==
    /\ proc[p].pc = "gr_write"
    /\ index' = proc[p].valid
    /\ proc' = [proc EXCEPT ![p] = AfterGet(proc[p], ListResult(proc[p].valid))]
    /\ UNCHANGED <<impl, dirExists, files, now, nSaves, nSavedOk, nUpdates, nonSave, faults, nExtDel, nCalls, sessVars, dspVars, appVars>>

\* The first step of every operation that starts with getRecordings().
FirstGetPc == IF impl = "utils" THEN "gr_read" ELSE "gr_ensure"

\* list(): a call of getRecordings by a screen.
BeginList(p, mode) ==
    /\ Quiet(p)
    /\ CallBudget(mode)
    /\ proc' = [proc EXCEPT ![p] =
          [IdleProc EXCEPT !.op = "list", !.pc = FirstGetPc, !.pre = SnapshotFor(mode)]]
    /\ UNCHANGED <<impl, dirExists, files, index, now, nSaves, nSavedOk, nUpdates, nonSave, faults, nExtDel, sessVars, dspVars, appVars>>


\* ------------------------------------------------------------------ save
\* The metadata seed of a save.  utils: handleStopRecording builds
\* { id: `${type}-${Date.now()}`, type, createdAt: new Date() }.
\* service: saveRecording draws id = generateUUID(), a fresh random value,
\* modelled as the serial number of the call.
SeedFor(kind, serial) ==
    IF impl = "utils"
    THEN [NoEntry EXCEPT !.id = <<kind, now>>, !.type = kind, !.createdAt = now]
    ELSE [NoEntry EXCEPT !.id = <<"uuid", serial>>, !.type = "stethoscope"]

\* The name the file gets in the managed directory:
\* `${type}-${Date.now()}.m4a` (utils/audio), `stetho-${Date.now()}.m4a` (service).
DestName(seed, t) ==
    IF impl = "utils" THEN <<seed.type, t>> ELSE <<"stetho", t>>

\* Faulty variant of SourceReadable: a missing source file goes unnoticed.
SourceReadable_Always(srcExists) == TRUE

\* moveAsync / copyAsync reject when the source file does not exist.
SourceReadable(srcExists) == srcExists

BeginSave(p, mode) ==
    /\ Quiet(p)
    /\ CallBudget(mode)
    /\ nSaves < MaxSaves
    /\ \E kind \in (IF impl = "utils" THEN Kinds ELSE {"stethoscope"}), src \in BOOLEAN :
          proc' = [proc EXCEPT ![p] =
             [IdleProc EXCEPT !.op = "save", !.pc = "ensure",
                              !.seed = SeedFor(kind, nSaves + 1),
                              !.srcExists = src, !.pre = SnapshotFor(mode)]]
    /\ nSaves' = nSaves + 1
    /\ UNCHANGED <<impl, dirExists, files, index, now, nSavedOk, nUpdates, nonSave, faults, nExtDel, sessVars, dspVars, appVars>>

\* await ensureDirectoryExists()
saveRecording_ensure(p) ==
    /\ proc[p].pc = "ensure"
    /\ dirExists' = TRUE
    /\ proc' = [proc EXCEPT ![p].pc = "relocate"]
    /\ UNCHANGED <<impl, files, index, now, nSaves, nSavedOk, nUpdates, nonSave, faults, nExtDel, nCalls, sessVars, dspVars, appVars>>

\* The file name is generated from Date.now() and the captured file is moved
\* (utils/audio) or copied (service) to it.  A missing source throws: utils
\* returns false, service throws 'Failed to save recording'.
saveRecording_relocate(p) ==
    /\ proc[p].pc = "relocate"
    /\ LET r    == proc[p]
           dest == DestName(r.seed, now)
       IN IF SourceReadable(r.srcExists)
          THEN /\ files' = files \cup {dest}
               /\ proc' = [proc EXCEPT ![p] =
                     [r EXCEPT !.ent = [r.seed EXCEPT !.uri = dest],
                               !.pc = IF impl = "utils" THEN "stat" ELSE "sv_read"]]
          ELSE /\ files' = files
               /\ proc' = [proc EXCEPT ![p] = Finish(r, "error")]
    /\ UNCHANGED <<impl, dirExists, index, now, nSaves, nSavedOk, nUpdates, nonSave, faults, nExtDel, nCalls, sessVars, dspVars, appVars>>

\* Faulty variant of FileSize: the size is never filled in.
FileSize_Unknown(f, fs) == 0

\* fileInfo = getInfoAsync(f, { size: true }); 'size' in fileInfo ? fileInfo.size : 0
FileSize(f, fs) == IF f \in fs THEN CaptureBytes ELSE 0

\* utils/audio: await FileSystem.getInfoAsync(destUri, { size: true }), the
\* entry is completed with fileSize, then saveRecordingMetadata starts with
\* getRecordings().
saveRecording_stat(p) ==
    /\ proc[p].pc = "stat"
    /\ impl = "utils"
    /\ proc' = [proc EXCEPT ![p] =
          [proc[p] EXCEPT !.ent.fileSize = FileSize(proc[p].ent.uri, files),
                          !.pc = "gr_read"]]
    /\ UNCHANGED <<impl, dirExists, files, index, now, nSaves, nSavedOk, nUpdates, nonSave, faults, nExtDel, nCalls, sessVars, dspVars, appVars>>

\* service: createdAt = new Date(), then the index is read as it is stored
\* (no file check): await AsyncStorage.getItem(KEY).
saveRecording_getItem(p) ==
    /\ proc[p].pc = "sv_read"
    /\ impl = "service"
    /\ proc' = [proc EXCEPT ![p] =
          [proc[p] EXCEPT !.ent.createdAt = now, !.recs = index, !.pc = "sv_write"]]
    /\ UNCHANGED <<impl, dirExists, files, index, now, nSaves, nSavedOk, nUpdates, nonSave, faults, nExtDel, nCalls, sessVars, dspVars, appVars>>

\* updatedRecordings = [recording, ...existingRecordings]; await setItem.
saveRecordingMetadata_setItem(p) ==
    /\ proc[p].pc = "sv_write"
    /\ index' = <<proc[p].ent>> \o proc[p].recs
    /\ proc' = [proc EXCEPT ![p] = Finish(proc[p], "ok")]
    /\ nSavedOk' = nSavedOk + 1
    /\ UNCHANGED <<impl, dirExists, files, now, nSaves, nUpdates, nonSave, faults, nExtDel, nCalls, sessVars, dspVars, appVars>>

\* ---------------------------------------------------------------- delete
BeginDelete(p, mode) ==
    /\ Quiet(p)
    /\ CallBudget(mode)
    /\ \E id \in Ids(index) \cup {UnknownId} :
          proc' = [proc EXCEPT ![p] =
             [IdleProc EXCEPT !.op = "delete", !.pc = FirstGetPc, !.id = id,
                              !.pre = SnapshotFor(mode)]]
    /\ nonSave' = TRUE
    /\ UNCHANGED <<impl, dirExists, files, index, now, nSaves, nSavedOk, nUpdates, faults, nExtDel, sessVars, dspVars, appVars>>

\* utils/storage only: await FileSystem.getInfoAsync(recordingToDelete.uri)
deleteRecording_getInfo(p) ==
    /\ proc[p].pc = "del_info"
    /\ impl = "utils"
    /\ proc' = [proc EXCEPT ![p].pc =
          IF proc[p].target.uri \in files THEN "del_file" ELSE "del_write"]
    /\ UNCHANGED <<impl, dirExists, files, index, now, nSaves, nSavedOk, nUpdates, nonSave, faults, nExtDel, nCalls, sessVars, dspVars, appVars>>

\* await FileSystem.deleteAsync(uri): rejects when the file is not there.
deleteRecording_deleteAsync(p) ==
    /\ proc[p].pc = "del_file"
    /\ LET r == proc[p] IN
       IF r.target.uri \in files
       THEN /\ files' = files \ {r.target.uri}
            /\ proc' = [proc EXCEPT ![p].pc = "del_write"]
       ELSE /\ files' = files
            /\ proc' = [proc EXCEPT ![p] = Finish(r, "error")]
    /\ UNCHANGED <<impl, dirExists, index, now, nSaves, nSavedOk, nUpdates, nonSave, faults, nExtDel, nCalls, sessVars, dspVars, appVars>>

\* await AsyncStorage.setItem(KEY, recordings.filter(r => r.id !== id))
deleteRecording_setItem(p) ==
    /\ proc[p].pc = "del_write"
    /\ index' = WithoutId(proc[p].recs, proc[p].id)
    /\ proc' = [proc EXCEPT ![p] = Finish(proc[p], "ok")]
    /\ UNCHANGED <<impl, dirExists, files, now, nSaves, nSavedOk, nUpdates, nonSave, faults, nExtDel, nCalls, sessVars, dspVars, appVars>>

\* -------------------------------------------------------------- clearAll
\* Faulty variant of ClearNext: the loop stops after its first entry.
ClearNext_StopEarly(r) == [r EXCEPT !.i = 0, !.pc = "clr_remove"]

\* The loop's next position after entry i.
ClearNext(r) ==
    IF r.i < Len(r.recs)
    THEN [r EXCEPT !.i = r.i + 1, !.pc = "clr_info"]
    ELSE [r EXCEPT !.i = 0, !.pc = "clr_remove"]

BeginClearAll(p, mode) ==
    /\ Quiet(p)
    /\ CallBudget(mode)
    /\ impl = "utils"
    /\ proc' = [proc EXCEPT ![p] =
          [IdleProc EXCEPT !.op = "clearAll", !.pc = "gr_read", !.pre = SnapshotFor(mode)]]
    /\ nonSave' = TRUE
    /\ UNCHANGED <<impl, dirExists, files, index, now, nSaves, nSavedOk, nUpdates, faults, nExtDel, sessVars, dspVars, appVars>>

\* await FileSystem.getInfoAsync(recording.uri)
clearAllRecordings_getInfo(p) ==
    /\ proc[p].pc = "clr_info"
    /\ LET r == proc[p] IN
       proc' = [proc EXCEPT ![p] =
          IF r.recs[r.i].uri \in files THEN [r EXCEPT !.pc = "clr_file"] ELSE ClearNext(r)]
    /\ UNCHANGED <<impl, dirExists, files, index, now, nSaves, nSavedOk, nUpdates, nonSave, faults, nExtDel, nCalls, sessVars, dspVars, appVars>>

\* await FileSystem.deleteAsync(recording.uri)
clearAllRecordings_deleteAsync(p) ==
    /\ proc[p].pc = "clr_file"
    /\ LET r == proc[p] IN
       IF r.recs[r.i].uri \in files
       THEN /\ files' = files \ {r.recs[r.i].uri}
            /\ proc' = [proc EXCEPT ![p] = ClearNext(r)]
       ELSE /\ files' = files
            /\ proc' = [proc EXCEPT ![p] = Finish(r, "error")]
    /\ UNCHANGED <<impl, dirExists, index, now, nSaves, nSavedOk, nUpdates, nonSave, faults, nExtDel, nCalls, sessVars, dspVars, appVars>>

\* await AsyncStorage.removeItem(KEY)
clearAllRecordings_removeItem(p) ==
    /\ proc[p].pc = "clr_remove"
    /\ index' = <<>>
    /\ proc' = [proc EXCEPT ![p] = Finish(proc[p], "ok")]
    /\ UNCHANGED <<impl, dirExists, files, now, nSaves, nSavedOk, nUpdates, nonSave, faults, nExtDel, nCalls, sessVars, dspVars, appVars>>

\* ---------------------------------------------------------------- update
BeginUpdate(p, mode) ==
    /\ Quiet(p)
    /\ CallBudget(mode)
    /\ nUpdates < MaxUpdates
    /\ \E id \in Ids(index) \cup {UnknownId}, u \in Patches :
          proc' = [proc EXCEPT ![p] =
             [IdleProc EXCEPT !.op = "update", !.pc = FirstGetPc, !.id = id,
                              !.updates = u, !.pre = SnapshotFor(mode)]]
    /\ nUpdates' = nUpdates + 1
    /\ nonSave' = TRUE
    /\ UNCHANGED <<impl, dirExists, files, index, now, nSaves, nSavedOk, faults, nExtDel, sessVars, dspVars, appVars>>

\* await AsyncStorage.setItem(KEY, recordings.map(...))
updateRecording_setItem(p) ==
    /\ proc[p].pc = "upd_write"
    /\ index' = MapUpdate(proc[p].recs, proc[p].id, proc[p].updates)
    /\ proc' = [proc EXCEPT ![p] = Finish(proc[p], "ok")]
    /\ UNCHANGED <<impl, dirExists, files, now, nSaves, nSavedOk, nUpdates, nonSave, faults, nExtDel, nCalls, sessVars, dspVars, appVars>>

\* ------------------------------------------------------- the environment
\* Date.now() advances.
Tick ==
    /\ now < MaxClock
    /\ now' = now + 1
    /\ UNCHANGED <<impl, dirExists, files, index, proc, nSaves, nSavedOk, nUpdates, nonSave, faults, nExtDel, nCalls, sessVars, dspVars, appVars>>

\* A backing file is removed from outside the store.
ExternalDelete ==
    /\ \A p \in Procs : Quiet(p)
    /\ nExtDel < MaxExtDeletes
    /\ \E f \in files : files' = files \ {f}
    /\ nExtDel' = nExtDel + 1
    /\ nonSave' = TRUE
    /\ UNCHANGED <<impl, dirExists, index, now, proc, nSaves, nSavedOk, nUpdates, faults, nCalls, sessVars, dspVars, appVars>>

\* The positions inside getRecordings' try block: its catch returns [].
GetPcs == {"gr_ensure", "gr_read", "gr_check", "gr_write"}
\* The other positions that await an I/O call: the caller's catch rethrows
\* (utils/audio saveRecording returns false).
ThrowPcs == {"ensure", "relocate", "stat", "sv_read", "sv_write", "del_info", "del_file",
             "del_write", "clr_info", "clr_file", "clr_remove", "upd_write"}

\* The I/O call the process is awaiting throws; nothing is written.
Fault(p) ==
    /\ faults < MaxFaults
    /\ proc[p].pc \in GetPcs \cup ThrowPcs
    /\ LET r == [proc[p] EXCEPT !.fault = proc[p].pc] IN
       proc' = [proc EXCEPT ![p] =
          IF r.pc \in GetPcs THEN AfterGet(r, <<>>) ELSE Finish(r, "error")]
    /\ faults' = faults + 1
    /\ UNCHANGED <<impl, dirExists, files, index, now, nSaves, nSavedOk, nUpdates, nonSave, nExtDel, nCalls, sessVars, dspVars, appVars>>

\* -------------------------------------------------------- specifications
\* A call starts.
Begin(p, mode) ==
    \/ BeginList(p, mode)
    \/ BeginSave(p, mode)
    \/ BeginDelete(p, mode)
    \/ BeginClearAll(p, mode)
    \/ BeginUpdate(p, mode)

\* A running call takes its next step: one awaited I/O call completes.
Continue(p) ==
    \/ getRecordings_ensure(p)
    \/ getRecordings_getItem(p)
    \/ getRecordings_getInfo(p)
    \/ getRecordings_setItem(p)
    \/ saveRecording_ensure(p)
    \/ saveRecording_relocate(p)
    \/ saveRecording_stat(p)
    \/ saveRecording_getItem(p)
    \/ saveRecordingMetadata_setItem(p)
    \/ deleteRecording_getInfo(p)
    \/ deleteRecording_deleteAsync(p)
    \/ deleteRecording_setItem(p)
    \/ clearAllRecordings_getInfo(p)
    \/ clearAllRecordings_deleteAsync(p)
    \/ clearAllRecordings_removeItem(p)
    \/ updateRecording_setItem(p)

\* One call at a time; between two calls a file may vanish.
Next ==
    \/ \E p \in SeqProcs : Begin(p, "seq")
    \/ \E p \in SeqProcs : Continue(p)
    \/ Tick
    \/ ExternalDelete

Spec == Init /\ [][Next]_vars

\* One call at a time, and an awaited I/O call may throw.
NextFault ==
    \/ Next
    \/ \E p \in SeqProcs : Fault(p)

FaultSpec == Init /\ [][NextFault]_vars

\* Calls of two processes interleaved at their awaits; no I/O call throws.
NextConc ==
    \/ \E p \in Procs : Begin(p, "conc")
    \/ \E p \in Procs : Continue(p)
    \/ Tick

ConcSpec == Init /\ [][NextConc]_vars

\* ------------------------------------------------------------ initialize
\* storageService.initialize's testRecording: test-recording.m4a, a file
\* that nothing creates.
TestRecording ==
    [NoEntry EXCEPT !.id = <<"test", 0>>, !.uri = <<"test", 0>>, !.type = "test",
                    !.createdAt = now, !.duration = 10, !.fileSize = 1000]

\* RecordScreen's setup effect: await storageService.initialize().
BeginInitialize(p) ==
    /\ impl = "service"
    /\ Quiet(p)
    /\ CallBudget("conc")
    /\ proc' = [proc EXCEPT ![p] =
          [IdleProc EXCEPT !.op = "initialize", !.pc = "in_ensure", !.pre = Snapshot]]
    /\ UNCHANGED <<impl, dirExists, files, index, now, nSaves, nSavedOk, nUpdates, nonSave,
                   faults, nExtDel, sessVars, dspVars, appVars>>

\* await ensureDirectoryExists()
initialize_ensure(p) ==
    /\ proc[p].pc = "in_ensure"
    /\ dirExists' = TRUE
    /\ proc' = [proc EXCEPT ![p].pc = "in_dir"]
    /\ UNCHANGED <<impl, files, index, now, nSaves, nSavedOk, nUpdates, nonSave, faults,
                   nExtDel, nCalls, sessVars, dspVars, appVars>>

\* dirContents = await FileSystem.readDirectoryAsync(RECORDINGS_DIRECTORY)
initialize_readDirectory(p) ==
    /\ proc[p].pc = "in_dir"
    /\ proc' = [proc EXCEPT ![p].pc = "in_read", ![p].i = Cardinality(files)]
    /\ UNCHANGED <<impl, dirExists, files, index, now, nSaves, nSavedOk, nUpdates, nonSave,
                   faults, nExtDel, nCalls, sessVars, dspVars, appVars>>

\* recordings = JSON.parse(await AsyncStorage.getItem(...)); the test entry
\* is written only if recordings and dirContents are both empty.
initialize_getItem(p) ==
    /\ proc[p].pc = "in_read"
    /\ proc' = [proc EXCEPT ![p] =
          IF Len(index) = 0 /\ proc[p].i = 0
          THEN [proc[p] EXCEPT !.pc = "in_write"]
          ELSE Finish(proc[p], "ok")]
    /\ UNCHANGED <<impl, dirExists, files, index, now, nSaves, nSavedOk, nUpdates, nonSave,
                   faults, nExtDel, nCalls, sessVars, dspVars, appVars>>

\* await AsyncStorage.setItem(RECORDINGS_METADATA_KEY, JSON.stringify([testRecording]))
initialize_setItem(p) ==
    /\ proc[p].pc = "in_write"
    /\ index' = <<TestRecording>>
    /\ proc' = [proc EXCEPT ![p] = Finish(proc[p], "ok")]
    /\ UNCHANGED <<impl, dirExists, files, now, nSaves, nSavedOk, nUpdates, nonSave, faults,
                   nExtDel, nCalls, sessVars, dspVars, appVars>>

\* The setup effect of a mounted RecordScreen interleaved with saves.
NextInitialize ==
    \/ BeginInitialize("p1")
    \/ initialize_ensure("p1")
    \/ initialize_readDirectory("p1")
    \/ initialize_getItem("p1")
    \/ initialize_setItem("p1")
    \/ BeginSave("p2", "conc")
    \/ saveRecording_ensure("p2")
    \/ saveRecording_relocate("p2")
    \/ saveRecording_getItem("p2")
    \/ saveRecordingMetadata_setItem("p2")
    \/ Tick

InitializeSpec == ServiceInit /\ [][NextInitialize]_vars

\* A listing interleaved with saves, files vanishing from outside while no
\* call is in progress.
NextPrune ==
    \/ BeginList("p1", "conc")
    \/ BeginSave("p2", "conc")
    \/ \E p \in Procs : getRecordings_ensure(p)
    \/ \E p \in Procs : getRecordings_getItem(p)
    \/ \E p \in Procs : getRecordings_getInfo(p)
    \/ \E p \in Procs : getRecordings_setItem(p)
    \/ saveRecording_ensure("p2")
    \/ saveRecording_relocate("p2")
    \/ saveRecording_stat("p2")
    \/ saveRecording_getItem("p2")
    \/ saveRecordingMetadata_setItem("p2")
    \/ Tick
    \/ ExternalDelete

PruneSpec == Init /\ [][NextPrune]_vars


\* ------------------------------------------------------ the capture device
\* Every store variable but faults.
storeQuiet == <<impl, dirExists, files, index, now, proc, nSaves, nSavedOk,
                nUpdates, nonSave, nExtDel, nCalls>>

\* An Audio.Recording object holds the microphone in these states.
Active(st) == st \in {"prepared", "recording", "paused"}

\* expo-av's Audio.Recording is not part of this repository.  An operation
\* the object's state allows succeeds; one made in another state throws or is
\* accepted without effect, whichever the platform does; unloading an object
\* that holds no capture throws.
DeviceOutcomes(op, o) ==
    LET st == objs[o] IN
    CASE op = "prepare" ->
           IF st # "created" THEN {"throw"}
           ELSE IF \E q \in ObjIds : q # o /\ Active(objs[q])
                THEN {"ok", "throw"} ELSE {"ok"}
      [] op = "start" ->
           IF st \in {"prepared", "paused"} THEN {"ok"}
           ELSE IF st = "recording" THEN {"ok", "throw"} ELSE {"throw"}
      [] op = "pause" ->
           IF st = "recording" THEN {"ok"}
           ELSE IF st = "paused" THEN {"ok", "throw"} ELSE {"throw"}
      [] op = "stop" ->
           IF Active(st) THEN {"ok"} ELSE {"throw"}

\* The objects after an accepted operation on object o.
DeviceApply(op, o) ==
    CASE op = "prepare" -> [objs EXCEPT ![o] = "prepared"]
      [] op = "start"   -> [objs EXCEPT ![o] = "recording"]
      [] op = "pause"   -> [objs EXCEPT ![o] = "paused"]
      [] op = "stop"    -> [objs EXCEPT ![o] = "unloaded"]

\* The capture goes on: the device's elapsed time advances.
DeviceTick ==
    /\ \E o \in ObjIds : objs[o] = "recording"
    /\ devMs < MaxElapsedSteps * StepMs
    /\ devMs' = devMs + StepMs
    /\ UNCHANGED <<storeQuiet, dspVars, appVars, faults, handle, objs, ui, hs, sound, nStarts>>

\* RecordScreen.handleRecordingStatusUpdate: status.isRecording, so
\* setRecordingDuration(status.durationMillis / 1000).
StatusUpdate ==
    /\ impl = "service"
    /\ \E o \in ObjIds : objs[o] = "recording"
    /\ ui.dur # devMs
    /\ ui' = [ui EXCEPT !.dur = devMs]
    /\ UNCHANGED <<storeQuiet, dspVars, appVars, faults, handle, objs, devMs, hs, sound, nStarts>>

\* A handler invocation that ended: with res, and with the position of the
\* awaited call that threw when one did.
HFinish(r, res, out) ==
    [r EXCEPT !.pc = "done", !.res = res,
              !.fault = IF out # "ok" THEN r.pc ELSE r.fault]

\* ----------------------------------------------------------------- start
\* handleStartRecording (record.tsx) / RecordScreen.startRecording: the
\* synchronous part; RecordScreen resets recordingResult and recordingDuration.
BeginStart(h, gate) ==
    /\ HQuiet(h)
    /\ Callable("start", gate)
    /\ nStarts < MaxStarts
    /\ nStarts' = nStarts + 1
    /\ hs' = [hs EXCEPT ![h] =
          [IdleHandler EXCEPT !.op = "start", !.pc = "perm", !.obj = nStarts + 1,
                              !.pre = HSnapshot]]
    /\ ui' = IF impl = "service" THEN [ui EXCEPT !.result = NoResult, !.dur = 0] ELSE ui
    /\ UNCHANGED <<storeQuiet, dspVars, appVars, faults, handle, objs, devMs, sound>>

\* await requestPermissions(): not granted (or throwing) makes startRecording
\* throw; both screens catch and show an alert.
startRecording_permission_do(h, out) ==
    /\ hs[h].pc = "perm"
    /\ hs' = [hs EXCEPT ![h] =
          IF out = "ok"
          THEN [hs[h] EXCEPT !.pc = IF impl = "utils" THEN "st_ensure" ELSE "st_mode"]
          ELSE HFinish(hs[h], "alert", out)]
    /\ UNCHANGED <<storeQuiet, dspVars, appVars, handle, objs, devMs, ui, sound, nStarts>>

startRecording_permission(h) ==
    \E out \in {"ok", "throw"} : startRecording_permission_do(h, out) /\ UNCHANGED faults

\* utils/audio only: await ensureDirectoryExists()
startRecording_ensure_do(h, out) ==
    /\ hs[h].pc = "st_ensure"
    /\ impl = "utils"
    /\ dirExists' = IF out = "ok" THEN TRUE ELSE dirExists
    /\ hs' = [hs EXCEPT ![h] =
          IF out = "ok" THEN [hs[h] EXCEPT !.pc = "st_mode"]
          ELSE HFinish(hs[h], "alert", out)]
    /\ UNCHANGED <<dspVars, appVars, impl, files, index, now, proc, nSaves, nSavedOk, nUpdates, nonSave,
                   nExtDel, nCalls, handle, objs, devMs, ui, sound, nStarts>>

startRecording_ensure(h) ==
    startRecording_ensure_do(h, "ok") /\ UNCHANGED faults

\* await Audio.setAudioModeAsync(...), then new Audio.Recording(): a local of
\* utils/audio startRecording, but assigned to the module-level recording in
\* audioService.
startRecording_setAudioMode_do(h, out) ==
    /\ hs[h].pc = "st_mode"
    /\ objs' = IF out = "ok" THEN [objs EXCEPT ![hs[h].obj] = "created"] ELSE objs
    /\ handle' = IF out = "ok" /\ impl = "service" THEN hs[h].obj ELSE handle
    /\ hs' = [hs EXCEPT ![h] =
          IF out = "ok" THEN [hs[h] EXCEPT !.pc = "st_prepare"]
          ELSE HFinish(hs[h], "alert", out)]
    /\ UNCHANGED <<storeQuiet, dspVars, appVars, devMs, ui, sound, nStarts>>

startRecording_setAudioMode(h) ==
    startRecording_setAudioMode_do(h, "ok") /\ UNCHANGED faults

\* await recording.prepareToRecordAsync(RECORDING_OPTIONS)
startRecording_prepare_do(h, out) ==
    /\ hs[h].pc = "st_prepare"
    /\ objs' = IF out = "ok" THEN DeviceApply("prepare", hs[h].obj) ELSE objs
    /\ hs' = [hs EXCEPT ![h] =
          IF out = "ok" THEN [hs[h] EXCEPT !.pc = "st_start"]
          ELSE HFinish(hs[h], "alert", out)]
    /\ UNCHANGED <<storeQuiet, dspVars, appVars, handle, devMs, ui, sound, nStarts>>

startRecording_prepare(h) ==
    /\ hs[h].pc = "st_prepare"
    /\ \E out \in DeviceOutcomes("prepare", hs[h].obj) :
          startRecording_prepare_do(h, out) /\ UNCHANGED faults

\* await recording.startAsync(); utils/audio returns the object and
\* handleStartRecording keeps it in recording.current, sets isRecording and
\* starts the interval timer; audioService returns true and RecordScreen sets
\* isRecording.
startRecording_start_do(h, out) ==
    /\ hs[h].pc = "st_start"
    /\ (out = "ok" /\ impl = "utils") => ui.timers < MaxTimers
    /\ objs' = IF out = "ok" THEN DeviceApply("start", hs[h].obj) ELSE objs
    /\ devMs' = IF out = "ok" THEN 0 ELSE devMs
    /\ handle' = IF out = "ok" /\ impl = "utils" THEN hs[h].obj ELSE handle
    /\ ui' = IF out # "ok" THEN ui
             ELSE IF impl = "utils"
                  THEN [ui EXCEPT !.isRecording = TRUE, !.isPaused = FALSE,
                                  !.timers = ui.timers + 1, !.timerRef = TRUE]
                  ELSE [ui EXCEPT !.isRecording = TRUE]
    /\ hs' = [hs EXCEPT ![h] = HFinish(hs[h], IF out = "ok" THEN "ok" ELSE "alert", out)]
    /\ UNCHANGED <<storeQuiet, dspVars, appVars, sound, nStarts>>

startRecording_start(h) ==
    /\ hs[h].pc = "st_start"
    /\ \E out \in DeviceOutcomes("start", hs[h].obj) :
          startRecording_start_do(h, out) /\ UNCHANGED faults

\* ---------------------------------------------------------- pause / resume
\* handlePauseRecording (record.tsx): returns at once without a capture
\* handle; otherwise resumes when the isPaused it captured is set, pauses
\* when it is not.
BeginPause(h, gate) ==
    /\ impl = "utils"
    /\ HQuiet(h)
    /\ Callable("pause", gate)
    /\ hs' = [hs EXCEPT ![h] =
          IF handle = 0
          THEN [IdleHandler EXCEPT !.op = "pause", !.pc = "done", !.res = "silent",
                                   !.pre = HSnapshot]
          ELSE [IdleHandler EXCEPT !.op = "pause", !.pc = "pz_wait", !.obj = handle,
                                   !.cPaused = ui.isPaused, !.pre = HSnapshot]]
    /\ UNCHANGED <<storeQuiet, dspVars, appVars, faults, handle, objs, devMs, ui, sound, nStarts>>

\* await recording.current.startAsync(), setIsPaused(false), setInterval; or
\* await recording.current.pauseAsync(), setIsPaused(true), clearInterval.
\* A throw is logged and nothing else.
handlePauseRecording_await_do(h, out) ==
    /\ hs[h].pc = "pz_wait"
    /\ (out = "ok" /\ hs[h].cPaused) => ui.timers < MaxTimers
    /\ LET r  == hs[h]
           op == IF r.cPaused THEN "start" ELSE "pause"
       IN /\ objs' = IF out = "ok" THEN DeviceApply(op, r.obj) ELSE objs
          /\ ui' = IF out # "ok" THEN ui
                   ELSE IF r.cPaused
                        THEN [ui EXCEPT !.isPaused = FALSE, !.timers = ui.timers + 1,
                                        !.timerRef = TRUE]
                        ELSE [ui EXCEPT !.isPaused = TRUE,
                                        !.timers = IF ui.timerRef THEN ui.timers - 1
                                                   ELSE ui.timers,
                                        !.timerRef = FALSE]
          /\ hs' = [hs EXCEPT ![h] = HFinish(r, IF out = "ok" THEN "ok" ELSE "silent", out)]
    /\ UNCHANGED <<storeQuiet, dspVars, appVars, handle, devMs, sound, nStarts>>

handlePauseRecording_await(h) ==
    /\ hs[h].pc = "pz_wait"
    /\ \E out \in DeviceOutcomes(IF hs[h].cPaused THEN "start" ELSE "pause", hs[h].obj) :
          handlePauseRecording_await_do(h, out) /\ UNCHANGED faults

\* ----------------------------------------------------------------- cleanup
\* audioService.cleanup returns.
CleanupReturn(r) ==
    [r EXCEPT !.pc = "done", !.clres = "returned",
              !.res = IF r.op = "stop" THEN "rejected" ELSE "ok"]

\* Faulty variant of CleanupCaught: the catch of cleanup rethrows.
CleanupCaught_Rethrows(r) ==
    [r EXCEPT !.pc = "done", !.clres = "threw",
              !.res = IF r.op = "stop" THEN "alert" ELSE "error"]

\* catch (error) { console.error(...) }: cleanup returns all the same.
CleanupCaught(r) == CleanupReturn(r)

\* The synchronous start of cleanup: if (recording) await
\* recording.stopAndUnloadAsync(); else if (sound) await sound.unloadAsync().
CleanupEntry(r) ==
    IF handle # 0 THEN [r EXCEPT !.pc = "cl_stop", !.obj = handle]
    ELSE IF sound THEN [r EXCEPT !.pc = "cl_sound"]
    ELSE CleanupReturn(r)

\* RecordScreen.stopRecording after its awaited cleanup returned:
\* setIsRecording(false).
UiAfterCleanup(r) ==
    IF r.pc = "done" /\ r.op = "stop" /\ r.clres = "returned"
    THEN [ui EXCEPT !.isRecording = FALSE] ELSE ui

\* audioService.cleanup() called on its own (the unmount effect of RecordScreen).
BeginCleanup(h) ==
    /\ impl = "service"
    /\ HQuiet(h)
    /\ hs' = [hs EXCEPT ![h] =
          CleanupEntry([IdleHandler EXCEPT !.op = "cleanup", !.pre = HSnapshot])]
    /\ UNCHANGED <<storeQuiet, dspVars, appVars, faults, handle, objs, devMs, ui, sound, nStarts>>

\* await recording.stopAndUnloadAsync(); recording = null; then the sound.
cleanup_stopAndUnload_do(h, out) ==
    /\ hs[h].pc = "cl_stop"
    /\ LET r  == [hs[h] EXCEPT !.fault = IF out # "ok" THEN "cl_stop" ELSE hs[h].fault]
           r2 == IF out # "ok" THEN CleanupCaught(r)
                 ELSE IF sound THEN [r EXCEPT !.pc = "cl_sound"]
                 ELSE CleanupReturn(r)
       IN /\ objs' = IF out = "ok" THEN DeviceApply("stop", r.obj) ELSE objs
          /\ handle' = IF out = "ok" THEN 0 ELSE handle
          /\ hs' = [hs EXCEPT ![h] = r2]
          /\ ui' = UiAfterCleanup(r2)
    /\ UNCHANGED <<storeQuiet, dspVars, appVars, devMs, sound, nStarts>>

cleanup_stopAndUnload(h) ==
    /\ hs[h].pc = "cl_stop"
    /\ \E out \in DeviceOutcomes("stop", hs[h].obj) :
          cleanup_stopAndUnload_do(h, out) /\ UNCHANGED faults

\* await sound.unloadAsync(); sound = null
cleanup_unloadSound_do(h, out) ==
    /\ hs[h].pc = "cl_sound"
    /\ LET r  == [hs[h] EXCEPT !.fault = IF out # "ok" THEN "cl_sound" ELSE hs[h].fault]
           r2 == IF out = "ok" THEN CleanupReturn(r) ELSE CleanupCaught(r)
       IN /\ sound' = IF out = "ok" THEN FALSE ELSE sound
          /\ hs' = [hs EXCEPT ![h] = r2]
          /\ ui' = UiAfterCleanup(r2)
    /\ UNCHANGED <<storeQuiet, dspVars, appVars, handle, objs, devMs, nStarts>>

cleanup_unloadSound(h) ==
    cleanup_unloadSound_do(h, "ok") /\ UNCHANGED faults

\* RecordScreen.playRecording -> audioService.playRecording: a sound is loaded.
playRecording ==
    /\ impl = "service"
    /\ ui.result # NoResult
    /\ ~sound
    /\ sound' = TRUE
    /\ UNCHANGED <<storeQuiet, dspVars, appVars, faults, handle, objs, devMs, ui, hs, nStarts>>

\* ------------------------------------------------------------------ stop
\* Faulty variant of TooShort: no capture is too short.
TooShort_Never(ms) == FALSE

\* recordingDuration < MIN_RECORDING_DURATION, recordingDuration being
\* status.durationMillis / 1000.
TooShort(ms) == ms < MIN_RECORDING_DURATION * 1000

\* Faulty variant of WholeSeconds: the milliseconds are taken for seconds.
WholeSeconds_Millis(ms) == ms

\* Math.floor(info.durationMillis / 1000)
WholeSeconds(ms) == ms \div 1000

\* recordingStatus.durationMillis || 0 in audioService.stopRecording: the
\* module's recordingStatus is {} and nothing assigns it.
StatusDurationMillis == 0

\* The screen after a stop that threw.  record.tsx: the finally block resets
\* isRecording, isPaused and isSaving.  RecordScreen.js: setIsProcessing(false).
UiStopFailed ==
    IF impl = "utils"
    THEN [ui EXCEPT !.isRecording = FALSE, !.isPaused = FALSE, !.busy = FALSE]
    ELSE [ui EXCEPT !.busy = FALSE]

\* handleStopRecording (record.tsx): returns at once without a capture
\* handle, else setIsSaving(true), clearInterval and stopRecording(handle).
\* RecordScreen.stopRecording: a capture shorter than the minimum is
\* cancelled through audioService.cleanup(); else setIsProcessing(true) and
\* audioService.stopRecording(), which throws 'No active recording' when the
\* module holds no recording.
BeginStop(h, gate) ==
    /\ HQuiet(h)
    /\ Callable("stop", gate)
    /\ LET kind == IF impl = "service" THEN "stethoscope"
                   ELSE IF handle = 0 THEN "none" ELSE ui.recordingType
           r0 == [IdleHandler EXCEPT !.op = "stop", !.kind = kind, !.pre = HSnapshot]
           r1 == IF impl = "utils"
                 THEN IF handle = 0 THEN [r0 EXCEPT !.pc = "done", !.res = "silent"]
                      ELSE [r0 EXCEPT !.pc = "sp_stop", !.obj = handle]
                 ELSE IF TooShort(ui.dur) THEN CleanupEntry(r0)
                      ELSE IF handle = 0 THEN [r0 EXCEPT !.pc = "done", !.res = "noActive"]
                      ELSE [r0 EXCEPT !.pc = "sp_stop", !.obj = handle]
       IN /\ hs' = [hs EXCEPT ![h] = r1]
          /\ ui' = IF r1.pc # "sp_stop" THEN UiAfterCleanup(r1)
                   ELSE IF impl = "utils"
                        THEN [ui EXCEPT !.busy = TRUE,
                                        !.timers = IF ui.timerRef THEN ui.timers - 1
                                                   ELSE ui.timers,
                                        !.timerRef = FALSE]
                        ELSE [ui EXCEPT !.busy = TRUE]
    /\ UNCHANGED <<storeQuiet, dspVars, appVars, faults, handle, objs, devMs, sound, nStarts>>

\* await recording.stopAndUnloadAsync()
stopRecording_stopAndUnload_do(h, out) ==
    /\ hs[h].pc = "sp_stop"
    /\ objs' = IF out = "ok" THEN DeviceApply("stop", hs[h].obj) ELSE objs
    /\ hs' = [hs EXCEPT ![h] =
          IF out = "ok"
          THEN [hs[h] EXCEPT !.pc = IF impl = "utils" THEN "sp_status" ELSE "sp_info"]
          ELSE HFinish(hs[h], "alert", out)]
    /\ ui' = IF out = "ok" THEN ui ELSE UiStopFailed
    /\ UNCHANGED <<storeQuiet, dspVars, appVars, handle, devMs, sound, nStarts>>

stopRecording_stopAndUnload(h) ==
    /\ hs[h].pc = "sp_stop"
    /\ \E out \in DeviceOutcomes("stop", hs[h].obj) :
          stopRecording_stopAndUnload_do(h, out) /\ UNCHANGED faults

\* utils/audio: info = await recording.getStatusAsync().  audioService:
\* fileInfo = await FileSystem.getInfoAsync(uri), then recording = null.
stopRecording_getStatus_do(h, out) ==
    /\ hs[h].pc \in {"sp_status", "sp_info"}
    /\ handle' = IF out = "ok" /\ impl = "service" THEN 0 ELSE handle
    /\ hs' = [hs EXCEPT ![h] =
          IF out = "ok"
          THEN [hs[h] EXCEPT !.pc = "sp_mode",
                             !.durMs = IF impl = "utils" THEN devMs
                                       ELSE StatusDurationMillis]
          ELSE HFinish(hs[h], "alert", out)]
    /\ ui' = IF out = "ok" THEN ui ELSE UiStopFailed
    /\ UNCHANGED <<storeQuiet, dspVars, appVars, objs, devMs, sound, nStarts>>

stopRecording_getStatus(h) ==
    stopRecording_getStatus_do(h, "ok") /\ UNCHANGED faults

\* The metadata seed handleStopRecording builds from the stop result.
StopSeed(r) ==
    [NoEntry EXCEPT !.id = <<r.kind, now>>, !.type = r.kind, !.createdAt = now,
                    !.duration = WholeSeconds(r.durMs)]

\* await Audio.setAudioModeAsync(reset) and the result is returned.
\* record.tsx: recording.current = null, the seed is built and
\* saveRecording(recordingData) is called.  RecordScreen.js:
\* setIsRecording(false), setRecordingResult(result), setIsProcessing(false).
stopRecording_resetMode_do(h, out) ==
    /\ hs[h].pc = "sp_mode"
    /\ LET r == hs[h] IN
       IF out # "ok"
       THEN /\ hs' = [hs EXCEPT ![h] = HFinish(r, "alert", out)]
            /\ ui' = UiStopFailed
            /\ UNCHANGED <<handle, proc, nSaves>>
       ELSE IF impl = "utils"
       THEN /\ handle' = 0
            /\ proc' = [proc EXCEPT !["p1"] =
                  [IdleProc EXCEPT !.op = "save", !.pc = "ensure", !.seed = StopSeed(r),
                                   !.srcExists = TRUE, !.pre = Snapshot]]
            /\ nSaves' = nSaves + 1
            /\ hs' = [hs EXCEPT ![h].pc = "sp_save"]
            /\ ui' = ui
       ELSE /\ hs' = [hs EXCEPT ![h] = HFinish(r, "ok", out)]
            /\ ui' = [ui EXCEPT !.isRecording = FALSE, !.busy = FALSE,
                                !.result = [uri |-> <<"tmp", r.obj>>,
                                            duration |-> r.durMs \div 1000,
                                            size |-> CaptureBytes]]
            /\ UNCHANGED <<handle, proc, nSaves>>
    /\ UNCHANGED <<dspVars, appVars, impl, dirExists, files, index, now, nSavedOk, nUpdates, nonSave,
                   nExtDel, nCalls, objs, devMs, sound, nStarts>>

stopRecording_resetMode(h) ==
    stopRecording_resetMode_do(h, "ok") /\ UNCHANGED faults

\* record.tsx: saved = await saveRecording(recordingData); if (saved) the
\* history screen is shown, and nothing is done otherwise; the finally block
\* resets the flags.
handleStopRecording_saved(h) ==
    /\ hs[h].pc = "sp_save"
    /\ proc["p1"].pc = "done"
    /\ hs' = [hs EXCEPT ![h] =
          HFinish([hs[h] EXCEPT !.saveRes = proc["p1"].res],
                  IF proc["p1"].res = "ok" THEN "ok" ELSE "silent", "ok")]
    /\ ui' = [ui EXCEPT !.isRecording = FALSE, !.isPaused = FALSE, !.busy = FALSE]
    /\ UNCHANGED <<storeQuiet, dspVars, appVars, faults, handle, objs, devMs, sound, nStarts>>

\* ------------------------------------------------- save of a stop result
\* RecordScreen.handleSave: returns at once without a recordingResult, else
\* setIsProcessing(true) and audioService.saveRecording(recordingResult, ...)
\* -> storageService.saveRecording(uri, { duration, size, ... }).
BeginSaveResult(h, gate) ==
    /\ impl = "service"
    /\ HQuiet(h)
    /\ Callable("saveResult", gate)
    /\ Quiet("p1")
    /\ IF ui.result = NoResult
       THEN /\ hs' = [hs EXCEPT ![h] =
                  [IdleHandler EXCEPT !.op = "saveResult", !.pc = "done", !.res = "silent",
                                      !.pre = HSnapshot]]
            /\ UNCHANGED <<proc, nSaves, ui>>
       ELSE /\ nSaves < MaxSaves
            /\ hs' = [hs EXCEPT ![h] =
                  [IdleHandler EXCEPT !.op = "saveResult", !.pc = "hs_save",
                                      !.pre = HSnapshot]]
            /\ proc' = [proc EXCEPT !["p1"] =
                  [IdleProc EXCEPT !.op = "save", !.pc = "ensure",
                       !.seed = [NoEntry EXCEPT !.id = <<"uuid", nSaves + 1>>,
                                                !.type = "stethoscope",
                                                !.duration = ui.result.duration,
                                                !.fileSize = ui.result.size],
                       !.srcExists = TRUE, !.pre = Snapshot]]
            /\ nSaves' = nSaves + 1
            /\ ui' = [ui EXCEPT !.busy = TRUE]
    /\ UNCHANGED <<dspVars, appVars, impl, dirExists, files, index, now, nSavedOk, nUpdates, nonSave,
                   faults, nExtDel, nCalls, handle, objs, devMs, sound, nStarts>>

\* The save returned (the recording goes to the global state and the analyze
\* screen is shown) or threw (an alert is shown); setIsProcessing(false).
handleSave_saved(h) ==
    /\ hs[h].pc = "hs_save"
    /\ proc["p1"].pc = "done"
    /\ hs' = [hs EXCEPT ![h] =
          HFinish([hs[h] EXCEPT !.saveRes = proc["p1"].res],
                  IF proc["p1"].res = "ok" THEN "ok" ELSE "alert", "ok")]
    /\ ui' = [ui EXCEPT !.busy = FALSE]
    /\ UNCHANGED <<storeQuiet, dspVars, appVars, faults, handle, objs, devMs, sound, nStarts>>

\* ------------------------------------------------------ session behaviours
\* The call a handler awaits throws.
DeviceFault(h) ==
    /\ faults < MaxFaults
    /\ faults' = faults + 1
    /\ \/ startRecording_permission_do(h, "fault")
       \/ startRecording_ensure_do(h, "fault")
       \/ startRecording_setAudioMode_do(h, "fault")
       \/ startRecording_prepare_do(h, "fault")
       \/ startRecording_start_do(h, "fault")
       \/ handlePauseRecording_await_do(h, "fault")
       \/ stopRecording_stopAndUnload_do(h, "fault")
       \/ stopRecording_getStatus_do(h, "fault")
       \/ stopRecording_resetMode_do(h, "fault")
       \/ cleanup_stopAndUnload_do(h, "fault")
       \/ cleanup_unloadSound_do(h, "fault")

\* A handler in progress takes its next step.
HContinue(h) ==
    \/ startRecording_permission(h)
    \/ startRecording_ensure(h)
    \/ startRecording_setAudioMode(h)
    \/ startRecording_prepare(h)
    \/ startRecording_start(h)
    \/ handlePauseRecording_await(h)
    \/ stopRecording_stopAndUnload(h)
    \/ stopRecording_getStatus(h)
    \/ stopRecording_resetMode(h)
    \/ handleStopRecording_saved(h)
    \/ handleSave_saved(h)
    \/ cleanup_stopAndUnload(h)
    \/ cleanup_unloadSound(h)

\* The steps of the save a handler started.
SaveContinue(p) ==
    \/ saveRecording_ensure(p)
    \/ saveRecording_relocate(p)
    \/ saveRecording_stat(p)
    \/ saveRecording_getItem(p)
    \/ getRecordings_getItem(p)
    \/ getRecordings_getInfo(p)
    \/ getRecordings_setItem(p)
    \/ saveRecordingMetadata_setItem(p)

\* The handlers are called from the screen, one at a time.
NextSession ==
    \/ BeginStart("h1", "screen")
    \/ BeginPause("h1", "screen")
    \/ BeginStop("h1", "screen")
    \/ BeginSaveResult("h1", "screen")
    \/ HContinue("h1")
    \/ SaveContinue("p1")
    \/ DeviceTick
    \/ StatusUpdate
    \/ playRecording
    \/ Tick
    \/ ExternalDelete

SessionSpec == SessionInit /\ [][NextSession]_vars

\* The same; audioService.cleanup may be called while a handler is in
\* progress, and an awaited device or storage call may throw.
NextSessionFault ==
    \/ NextSession
    \/ BeginCleanup("h2")
    \/ HContinue("h2")
    \/ \E h \in Handlers : DeviceFault(h)
    \/ Fault("p1")

SessionFaultSpec == SessionInit /\ [][NextSessionFault]_vars

\* RecordScreen.js with audioService, the store left aside: captures are
\* started and stopped from the screen, a stop result is played, the awaited
\* device calls may throw, and audioService.cleanup may be called at any
\* moment, a handler in progress or not.
NextCleanup ==
    \/ BeginStart("h1", "screen")
    \/ BeginStop("h1", "screen")
    \/ startRecording_permission("h1")
    \/ startRecording_setAudioMode("h1")
    \/ startRecording_prepare("h1")
    \/ startRecording_start("h1")
    \/ stopRecording_stopAndUnload("h1")
    \/ stopRecording_getStatus("h1")
    \/ stopRecording_resetMode("h1")
    \/ BeginCleanup("h2")
    \/ \E h \in Handlers : cleanup_stopAndUnload(h)
    \/ \E h \in Handlers : cleanup_unloadSound(h)
    \/ \E h \in Handlers : DeviceFault(h)
    \/ DeviceTick
    \/ StatusUpdate
    \/ playRecording

CleanupSpec == ServiceInit /\ [][NextCleanup]_vars

\* The handlers are called one at a time in any state of the session,
\* whatever the screen shows.
NextSessionCall ==
    \/ BeginStart("h1", "any")
    \/ BeginPause("h1", "any")
    \/ BeginStop("h1", "any")
    \/ BeginSaveResult("h1", "any")
    \/ HContinue("h1")
    \/ SaveContinue("p1")
    \/ DeviceTick
    \/ StatusUpdate
    \/ playRecording
    \/ Tick
    \/ ExternalDelete

SessionCallSpec == SessionInit /\ [][NextSessionCall]_vars

\* A press finds a free handler invocation: the first one, or the second
\* while the first is still awaiting.
PressSlot(h) == h = "h1" \/ ~HQuiet("h1")

\* record.tsx over utils/audio: the handlers are called from the screen, and
\* a button that is shown and enabled may be pressed again while an earlier
\* handler is still awaiting.  No file vanishes, so the reads of the index
\* have nothing to prune.
RecordInit == SessionInit /\ impl = "utils"

NextSessionPress ==
    \/ \E h \in Handlers : PressSlot(h) /\ BeginStart(h, "screen")
    \/ \E h \in Handlers : PressSlot(h) /\ BeginPause(h, "screen")
    \/ \E h \in Handlers : PressSlot(h) /\ BeginStop(h, "screen")
    \/ \E h \in Handlers : startRecording_permission(h)
    \/ \E h \in Handlers : startRecording_ensure(h)
    \/ \E h \in Handlers : startRecording_setAudioMode(h)
    \/ \E h \in Handlers : startRecording_prepare(h)
    \/ \E h \in Handlers : startRecording_start(h)
    \/ \E h \in Handlers : handlePauseRecording_await(h)
    \/ \E h \in Handlers : stopRecording_stopAndUnload(h)
    \/ \E h \in Handlers : stopRecording_getStatus(h)
    \/ \E h \in Handlers : stopRecording_resetMode(h)
    \/ \E h \in Handlers : handleStopRecording_saved(h)
    \/ saveRecording_ensure("p1")
    \/ saveRecording_relocate("p1")
    \/ saveRecording_stat("p1")
    \/ getRecordings_getItem("p1")
    \/ getRecordings_getInfo("p1")
    \/ saveRecordingMetadata_setItem("p1")
    \/ DeviceTick

SessionPressSpec == RecordInit /\ [][NextSessionPress]_vars


\* ------------------------------------------------- the signal processor
\* utils/fft.js.  The samples are floating-point numbers; what is kept of
\* them is the length of the buffer and the levels, in dB, of the magnitudes
\* its spectra have; normalised values are in hundredths.
DbLevels == {-200, -150, -100, -37, 0, 25}   \* 20 * log10(value + 1e-10)

\* n is a power of two.
RECURSIVE IsPowerOfTwo(_)
IsPowerOfTwo(n) ==
    IF n <= 0 THEN FALSE
    ELSE IF n = 1 THEN TRUE
    ELSE n % 2 = 0 /\ IsPowerOfTwo(n \div 2)

\* fft(signal) on n values: the number of values it returns, or -1 when it
\* throws.  The halves have (n + 1) div 2 and n div 2 values; the combining
\* loop runs k over 0 .. while k < n / 2 and reads evenFFT[k] and oddFFT[k],
\* and a read past the end gives undefined, on which add or multiply throws.
RECURSIVE fft(_)
fft(n) ==
    IF n <= 1 THEN n
    ELSE LET evenFFT == fft((n + 1) \div 2)
             oddFFT  == fft(n \div 2)
             lastK   == (n - 1) \div 2
         IN IF evenFFT = -1 \/ oddFFT = -1 THEN -1
            ELSE IF lastK >= oddFFT \/ lastK >= evenFFT THEN -1
            ELSE n

\* getSpectrum(samples, fftSize): padToPowerOfTwo gives fftSize values
\* whatever fftSize is, and the first half of what fft returns is kept.
getSpectrum(fftSize) ==
    IF fft(fftSize) = -1 THEN -1 ELSE fft(fftSize) \div 2

\* Faulty variant of numFrames: the last frame is not counted.
numFrames_WithoutLast(L, fftSize, hopSize) == (L - fftSize) \div hopSize

\* Math.floor((audioBuffer.length - fftSize) / hopSize) + 1
numFrames(L, fftSize, hopSize) == (L - fftSize) \div hopSize + 1

\* Faulty variant of Normalize: the value is not clamped.
Normalize_Unclamped(db) == db + 100

\* Math.max(0, Math.min(1, (db + 100) / 100)), in hundredths.
Normalize(db) ==
    LET v == db + 100
        m == IF v < 100 THEN v ELSE 100
    IN IF m > 0 THEN m ELSE 0

\* The calls made of the signal processor.
DspCalls ==
    { [NoCall EXCEPT !.fn = fn, !.pc = "called", !.L = L, !.fftSize = f,
                     !.hopSize = h, !.levels = lv] :
        fn \in {"getSpectrum", "generateSpectrogram"},
        L \in 0..MaxSamples, f \in 0..MaxFftSize, h \in 1..MaxHopSize,
        lv \in (SUBSET DbLevels) \ {{}} }

\* getSpectrum(samples, fftSize) returns the magnitudes or throws.
getSpectrum_call ==
    /\ dsp.pc = "called"
    /\ dsp.fn = "getSpectrum"
    /\ dsp' = IF getSpectrum(dsp.fftSize) = -1
              THEN [dsp EXCEPT !.pc = "done", !.res = "throw"]
              ELSE [dsp EXCEPT !.pc = "done", !.res = "ok", !.frames = 1,
                               !.lens = {getSpectrum(dsp.fftSize)}]
    /\ UNCHANGED <<storeQuiet, faults, sessVars, appVars>>

\* generateSpectrogram(audioBuffer, fftSize, hopSize): numFrames spectra,
\* every magnitude converted to dB and normalised; no frame, no call of
\* getSpectrum.
generateSpectrogram_call ==
    /\ dsp.pc = "called"
    /\ dsp.fn = "generateSpectrogram"
    /\ LET n == numFrames(dsp.L, dsp.fftSize, dsp.hopSize) IN
       dsp' = IF n <= 0
              THEN [dsp EXCEPT !.pc = "done", !.res = "ok", !.frames = 0]
              ELSE IF getSpectrum(dsp.fftSize) = -1
              THEN [dsp EXCEPT !.pc = "done", !.res = "throw"]
              ELSE [dsp EXCEPT !.pc = "done", !.res = "ok", !.frames = n,
                               !.lens = {getSpectrum(dsp.fftSize)},
                               !.values = IF getSpectrum(dsp.fftSize) = 0 THEN {}
                                          ELSE { Normalize(db) : db \in dsp.levels }]
    /\ UNCHANGED <<storeQuiet, faults, sessVars, appVars>>

\* One call of the signal processor, on any buffer and any sizes.
DspInit == InitStore("cough") /\ impl = "service" /\ dsp \in DspCalls /\ app = InitialApp

NextDsp ==
    \/ getSpectrum_call
    \/ generateSpectrogram_call

DspSpec == DspInit /\ [][NextDsp]_vars

\* ------------------------------------------------------------ AppProvider
\* What api.recordings.analyze resolves to.
AnalysisResults == {"r1", "r2"}

\* appReducer ADD_RECORDING: [action.payload, ...state.recordings]
ADD_RECORDING(recordings, payload) == <<payload>> \o recordings

\* Faulty variant of UPDATE_ANALYSIS: every recording gets the result.
UPDATE_ANALYSIS_All(recordings, id, result) ==
    [k \in 1..Len(recordings) |-> [recordings[k] EXCEPT !.analysisResult = result]]

\* appReducer UPDATE_ANALYSIS: state.recordings.map(recording =>
\* recording.id === id ? { ...recording, analysisResult } : recording)
UPDATE_ANALYSIS(recordings, id, result) ==
    [k \in 1..Len(recordings) |->
        IF recordings[k].id = id
        THEN [recordings[k] EXCEPT !.analysisResult = result]
        ELSE recordings[k]]

\* appReducer DELETE_RECORDING: filter(recording => recording.id !== id)
DELETE_RECORDING(recordings, id) == SelectSeq(recordings, LAMBDA r : r.id # id)

\* RecordScreen.handleSave after the save returned: the saved recording is
\* dispatched to the global state.
handleSave_dispatch ==
    /\ Done("p1", "save")
    /\ proc["p1"].res = "ok"
    /\ proc["p1"].ent.id \notin Ids(app.recordings)
    /\ LET recordings == ADD_RECORDING(app.recordings, proc["p1"].ent) IN
       app' = [app EXCEPT !.recordings = recordings,
                          !.run = Append(app.run, PersistRun(recordings)),
                          !.last = "ADD_RECORDING"]
    /\ UNCHANGED <<storeQuiet, faults, sessVars, dspVars>>

\* AnalyzeScreen.handleAnalyze on a recording of the global state:
\* result = await api.recordings.analyze(...), setAnalysisResult(result),
\* then storageService.updateRecording(recording.id, { analysisResult }).
handleAnalyze ==
    /\ Quiet("p1")
    /\ app.analysis.pc \in {"idle", "done"}
    /\ app.nOps < MaxAnalyses
    /\ \E k \in 1..Len(app.recordings), result \in AnalysisResults :
          /\ app' = [app EXCEPT !.analysis = [id |-> app.recordings[k].id, result |-> result,
                                              pc |-> "store", pre |-> app.recordings],
                                !.nOps = app.nOps + 1]
          /\ proc' = [proc EXCEPT !["p1"] =
                [IdleProc EXCEPT !.op = "update", !.pc = FirstGetPc,
                                 !.id = app.recordings[k].id,
                                 !.updates = [analysisResult |-> result],
                                 !.pre = Snapshot]]
    /\ nUpdates' = nUpdates + 1
    /\ nonSave' = TRUE
    /\ UNCHANGED <<impl, dirExists, files, index, now, nSaves, nSavedOk, faults, nExtDel,
                   nCalls, sessVars, dspVars>>

\* updateRecording returned: dispatch UPDATE_ANALYSIS; or it threw: the catch
\* shows an alert and nothing is dispatched.
handleAnalyze_dispatch ==
    /\ app.analysis.pc = "store"
    /\ Done("p1", "update")
    /\ LET recordings == UPDATE_ANALYSIS(app.recordings, app.analysis.id,
                                         app.analysis.result) IN
       app' = IF proc["p1"].res = "ok"
              THEN [app EXCEPT !.recordings = recordings,
                               !.run = Append(app.run, PersistRun(recordings)),
                               !.analysis.pc = "done", !.last = "UPDATE_ANALYSIS"]
              ELSE [app EXCEPT !.analysis.pc = "failed"]
    /\ UNCHANGED <<storeQuiet, faults, sessVars, dspVars>>

\* recordings.forEach(recording => dispatch(ADD_RECORDING, recording)):
\* every dispatch prepends, so the loaded list comes out reversed.
Reverse(s) == [k \in 1..Len(s) |-> s[Len(s) + 1 - k]]

\* A recording saved by a screen is dispatched to the global state; the
\* render that follows starts a persistState run.
dispatch_ADD_RECORDING ==
    /\ app.nOps < MaxDispatches
    /\ LET payload    == [NoEntry EXCEPT !.id = <<"uuid", app.nOps + 1>>,
                                         !.uri = <<"stetho", app.nOps + 1>>,
                                         !.type = "stethoscope"]
           recordings == ADD_RECORDING(app.recordings, payload)
       IN app' = [app EXCEPT !.recordings = recordings,
                             !.run = Append(app.run, PersistRun(recordings)),
                             !.last = "ADD_RECORDING", !.nOps = app.nOps + 1]
    /\ UNCHANGED <<storeQuiet, faults, sessVars, dspVars>>

\* history.tsx handleDeleteRecording: dispatch({ type: 'DELETE_RECORDING',
\* payload: id }) for a recording of the list shown.
dispatch_DELETE_RECORDING ==
    /\ app.nOps < MaxDispatches
    /\ \E id \in Ids(app.recordings) :
          LET recordings == DELETE_RECORDING(app.recordings, id) IN
          app' = [app EXCEPT !.recordings = recordings,
                             !.run = Append(app.run, PersistRun(recordings)),
                             !.last = "DELETE_RECORDING", !.nOps = app.nOps + 1]
    /\ UNCHANGED <<storeQuiet, faults, sessVars, dspVars>>

\* persistState: await AsyncStorage.removeItem('user') returned (no user is
\* signed in); then, if (state.recordings.length > 0), the recordings are
\* written, and the settings otherwise.
persistState_user ==
    /\ app.run # <<>>
    /\ Head(app.run).pc = "ps_user"
    /\ app' = [app EXCEPT !.run = Append(Tail(app.run),
                    [Head(app.run) EXCEPT !.pc = IF Len(Head(app.run).snap) > 0
                                                 THEN "ps_recordings"
                                                 ELSE "ps_settings"])]
    /\ UNCHANGED <<storeQuiet, faults, sessVars, dspVars>>

\* await AsyncStorage.setItem('recordings', JSON.stringify(state.recordings))
persistState_recordings ==
    /\ app.run # <<>>
    /\ Head(app.run).pc = "ps_recordings"
    /\ app' = [app EXCEPT !.doc = Head(app.run).snap,
                          !.run = Append(Tail(app.run),
                                         [Head(app.run) EXCEPT !.pc = "ps_settings"])]
    /\ UNCHANGED <<storeQuiet, faults, sessVars, dspVars>>

\* await AsyncStorage.setItem('settings', ...): the run ends.
persistState_settings ==
    /\ app.run # <<>>
    /\ Head(app.run).pc = "ps_settings"
    /\ app' = [app EXCEPT !.run = Tail(app.run)]
    /\ UNCHANGED <<storeQuiet, faults, sessVars, dspVars>>

\* loadPersistedState: userData = await AsyncStorage.getItem('user')
loadPersistedState_user ==
    /\ app.load = "ld_user"
    /\ app' = [app EXCEPT !.load = "ld_recordings"]
    /\ UNCHANGED <<storeQuiet, faults, sessVars, dspVars>>

\* recordingsData = await AsyncStorage.getItem('recordings'); every element
\* is dispatched as ADD_RECORDING (one render, one persistState run).  The
\* reads of the onboarding flag and of the settings follow.
loadPersistedState_recordings ==
    /\ app.load = "ld_recordings"
    /\ LET recordings == Reverse(app.doc) \o app.recordings IN
       app' = IF app.doc = <<>>
              THEN [app EXCEPT !.load = "done"]
              ELSE [app EXCEPT !.load = "done", !.recordings = recordings,
                               !.run = Append(app.run, PersistRun(recordings)),
                               !.last = "loaded"]
    /\ UNCHANGED <<storeQuiet, faults, sessVars, dspVars>>

\* The application is closed and launched again: AppProvider mounts with
\* initialState; what AsyncStorage holds stays.
Relaunch ==
    /\ app.nRestarts < MaxRestarts
    /\ app' = [InitialApp EXCEPT !.doc = app.doc, !.nOps = app.nOps,
                                 !.nRestarts = app.nRestarts + 1, !.last = "launched"]
    /\ UNCHANGED <<storeQuiet, faults, sessVars, dspVars>>

\* AppProvider: recordings added and deleted, the effects running.
NextApp ==
    \/ dispatch_ADD_RECORDING
    \/ dispatch_DELETE_RECORDING
    \/ persistState_user
    \/ persistState_recordings
    \/ persistState_settings
    \/ loadPersistedState_user
    \/ loadPersistedState_recordings
    \/ Relaunch

AppSpec == ServiceInit /\ [][NextApp]_vars

\* RecordScreen.js and AnalyzeScreen.js over storageService.js: recordings
\* are saved and analysed, one call at a time.  The persistState runs the
\* dispatches start are left pending: they write the 'recordings' document
\* of AppProvider, which these screens do not read.  The clock advances
\* between the calls.
NextAnalyze ==
    \/ BeginSave("p1", "seq")
    \/ saveRecording_ensure("p1")
    \/ saveRecording_relocate("p1")
    \/ saveRecording_getItem("p1")
    \/ saveRecordingMetadata_setItem("p1")
    \/ handleSave_dispatch
    \/ handleAnalyze
    \/ getRecordings_ensure("p1")
    \/ getRecordings_getItem("p1")
    \/ getRecordings_getInfo("p1")
    \/ getRecordings_setItem("p1")
    \/ updateRecording_setItem("p1")
    \/ handleAnalyze_dispatch
    \/ Quiet("p1") /\ Tick
    \/ ExternalDelete

AnalyzeSpec == ServiceInit /\ [][NextAnalyze]_vars

\* ------------------------------------------------------------ properties
\* What getRecordings returns for index document idx and directory fs when
\* nothing throws: the entries whose file exists, in the order it returns them.
ListView(idx, fs) == ListResult(SelectSeq(idx, LAMBDA r : r.uri \in fs))

\* C1 (reconciliation).  When list() has returned, no entry whose backing file
\* was missing when the call started is in its result or in the persisted
\* index, and every entry whose file was there is still returned and indexed.
C1_ListPrunesOrphans ==
    \A p \in SeqProcs :
        Done(p, "list") =>
            LET pre     == proc[p].pre
                missing == Uris(pre.index) \ pre.files
                live    == { e \in Range(pre.index) : e.uri \in pre.files }
            IN /\ Uris(proc[p].out) \cap missing = {}
               /\ Uris(index) \cap missing = {}
               /\ Range(proc[p].out) = live
               /\ Range(index) = live

\* C1 witness: a list() has returned on a store that held two entries, one of
\* them with its backing file deleted from outside.
C1_Witness ==
    \E p \in SeqProcs :
        /\ Done(p, "list")
        /\ nExtDel > 0
        /\ Len(proc[p].pre.index) >= 2
        /\ Uris(proc[p].pre.index) \ proc[p].pre.files # {}
        /\ proc[p].out # <<>>


\* C5 (missing source).  A save whose source file does not exist reports
\* failure, and the persisted index is what it was before the call.
C5_MissingSourceFails ==
    \A p \in SeqProcs :
        (Done(p, "save") /\ ~proc[p].srcExists) =>
            /\ proc[p].res = "error"
            /\ index = proc[p].pre.index

\* C5 witness: a save of a missing source file has ended on a store that
\* already holds an entry.
C5_Witness ==
    \E p \in SeqProcs :
        /\ Done(p, "save")
        /\ ~proc[p].srcExists
        /\ proc[p].pre.index # <<>>
        /\ proc[p].res = "error"

\* C6 (clearAll).  clearAll() on a store whose files are all indexed, with
\* nothing deleted from outside during the call, completes successfully and
\* leaves the index empty, list() empty and the managed directory empty,
\* whether or not some entry's backing file was already missing.
C6_ClearAllEmpties ==
    \A p \in SeqProcs :
        (/\ Done(p, "clearAll")
         /\ Undisturbed(p)
         /\ proc[p].pre.files \subseteq Uris(proc[p].pre.index)) =>
            /\ proc[p].res = "ok"
            /\ index = <<>>
            /\ ListView(index, files) = <<>>
            /\ files = {}

\* C6 witness: clearAll() has ended on a store that held several entries, one
\* with an already-missing backing file and one whose file was there.
C6_Witness ==
    \E p \in SeqProcs :
        /\ Done(p, "clearAll")
        /\ Undisturbed(p)
        /\ proc[p].pre.files \subseteq Uris(proc[p].pre.index)
        /\ Len(proc[p].pre.index) >= 2
        /\ Uris(proc[p].pre.index) \ proc[p].pre.files # {}
        /\ proc[p].pre.files # {}

\* The entry delete(id) acts on: the first entry with that id among those
\* getRecordings returns (NoEntry when every such entry's file is missing).
DeleteTarget(p) == Find(ListView(proc[p].pre.index, proc[p].pre.files), proc[p].id)

\* What delete(id) does to the entry and the file it names, for an id of the index.
DeleteRemoves(p) ==
    /\ proc[p].id \notin Ids(index)
    /\ DeleteTarget(p) # NoEntry => DeleteTarget(p).uri \notin files
    /\ \A e \in Range(proc[p].pre.index) :
           (e.id = proc[p].id /\ e.uri \notin proc[p].pre.files) => e.uri \notin files
    /\ Range(index) \subseteq Range(proc[p].pre.index)
    /\ files = proc[p].pre.files \ {DeleteTarget(p).uri}

\* C8 as stated.  delete(id) for an id of the index removes the entry and
\* its file, also when the file was already gone, and leaves EVERY other
\* entry and file unchanged.
C8_Original ==
    \A p \in SeqProcs :
        (Done(p, "delete") /\ Undisturbed(p) /\ proc[p].id \in Ids(proc[p].pre.index)) =>
            /\ DeleteRemoves(p)
            /\ \A e \in Range(proc[p].pre.index) : e.id # proc[p].id => e \in Range(index)

\* C8 as amended.  delete(id) for an id of the index removes the entry and
\* its file, also when the file was already gone; every other entry whose
\* backing file exists and every other file is left unchanged (other entries
\* whose file is missing are pruned by the getRecordings delete starts with).
C8_DeleteFrame ==
    \A p \in SeqProcs :
        (Done(p, "delete") /\ Undisturbed(p) /\ proc[p].id \in Ids(proc[p].pre.index)) =>
            /\ DeleteRemoves(p)
            /\ \A e \in Range(proc[p].pre.index) :
                   (e.id # proc[p].id /\ e.uri \in proc[p].pre.files) => e \in Range(index)

\* C8 witness: a delete of an indexed id has ended on a store that held
\* another entry whose file exists, the deleted entry's file being already gone.
C8_Witness ==
    \E p \in SeqProcs :
        /\ Done(p, "delete")
        /\ Undisturbed(p)
        /\ proc[p].id \in Ids(proc[p].pre.index)
        /\ DeleteTarget(p) = NoEntry
        /\ \E e \in Range(proc[p].pre.index) :
               e.id # proc[p].id /\ e.uri \in proc[p].pre.files

\* C8, the other case reached too: the deleted entry's file was there.
C8_WitnessFilePresent ==
    \E p \in SeqProcs :
        /\ Done(p, "delete")
        /\ Undisturbed(p)
        /\ DeleteTarget(p) # NoEntry
        /\ proc[p].res = "ok"
        /\ \E e \in Range(proc[p].pre.index) :
               e.id # proc[p].id /\ e.uri \in proc[p].pre.files /\ e \in Range(index)


\* C2 (no lost save).  When only saves have run and none is in progress, the
\* index holds one entry per successful save, list() returns that many
\* entries, and their ids are pairwise distinct.
C2_SavesAllKept ==
    ((\A p \in Procs : Quiet(p)) /\ ~nonSave) =>
        /\ Len(index) = nSavedOk
        /\ Len(ListView(index, files)) = nSavedOk
        /\ Cardinality(Ids(index)) = Len(index)

\* C2, the part about the number of entries alone.
C2_CountOnly ==
    ((\A p \in Procs : Quiet(p)) /\ ~nonSave) => Len(index) = nSavedOk

\* C3 (single writer).  When a save and a delete of another id have both
\* completed successfully, the index holds the saved entry and no entry with
\* the deleted id.
C3_DeleteAndSaveBothApplied ==
    \A p, q \in Procs :
        (/\ Done(p, "save") /\ proc[p].res = "ok"
         /\ Done(q, "delete") /\ proc[q].res = "ok"
         /\ proc[q].id # proc[p].ent.id) =>
            /\ proc[p].ent \in Range(index)
            /\ proc[q].id \notin Ids(index)

\* C4 (partial save).  After a utils/audio save whose file was moved into
\* the managed directory and whose index write then failed, the moved file
\* is either referenced by an index entry or no longer in the directory.
C4_NoUnaccountedFile ==
    \A p \in SeqProcs :
        (impl = "utils" /\ Done(p, "save") /\ proc[p].fault = "sv_write") =>
            \/ proc[p].ent.uri \notin files
            \/ proc[p].ent.uri \in Uris(index)

\* C7 (clearAll swallows delete failures).  A clearAll during which the
\* deletion of a file threw still completes without error and empties the index.
C7_ClearAllSwallowsDeleteFailure ==
    \A p \in SeqProcs :
        (Done(p, "clearAll") /\ proc[p].fault = "clr_file") =>
            /\ proc[p].res = "ok"
            /\ index = <<>>

\* C9 (NotFound).  delete(id) with an id that is not in the index reports
\* a failure and leaves the index and the files unchanged.
C9_DeleteUnknownFails ==
    \A p \in SeqProcs :
        (Done(p, "delete") /\ Undisturbed(p) /\ proc[p].id \notin Ids(proc[p].pre.index)) =>
            /\ proc[p].res = "error"
            /\ index = proc[p].pre.index
            /\ files = proc[p].pre.files

\* C10 (merge-patch).  update(id, fields) leaves every other entry unchanged
\* and gives the entry with that id the given fields, except that its id
\* and createdAt keep the values they had.
C10_UpdateKeepsIdentity ==
    \A p \in SeqProcs :
        Done(p, "update") =>
            \A e \in Range(proc[p].pre.index) :
                e.uri \in proc[p].pre.files =>
                    IF e.id = proc[p].id
                    THEN [SpreadMerge(e, proc[p].updates) EXCEPT
                              !.id = e.id, !.createdAt = e.createdAt] \in Range(index)
                    ELSE e \in Range(index)

\* C10, the part that the code keeps: a patch that names neither id nor
\* createdAt is merged and every other entry is unchanged.
C10_BenignPatchMerged ==
    \A p \in SeqProcs :
        (Done(p, "update") /\ DOMAIN proc[p].updates \cap {"id", "createdAt"} = {}) =>
            \A e \in Range(proc[p].pre.index) :
                e.uri \in proc[p].pre.files =>
                    IF e.id = proc[p].id
                    THEN SpreadMerge(e, proc[p].updates) \in Range(index)
                    ELSE e \in Range(index)

\* a before b in s implies a.createdAt is not earlier than b.createdAt.
NewestFirst(s) == \A k \in 1..(Len(s) - 1) : s[k].createdAt >= s[k + 1].createdAt

\* C11 (ordering).  After any sequence of save, update and delete calls, what
\* list() returns is ordered newest-first by createdAt.
C11_ListNewestFirst ==
    \A p \in SeqProcs : Done(p, "list") => NewestFirst(proc[p].out)

\* C11, the part that the code keeps: utils/storage sorts what it returns, and
\* storageService's list is newest-first as long as no update has run.
C11_SortedWhereSorted ==
    \A p \in SeqProcs :
        (Done(p, "list") /\ (impl = "utils" \/ nUpdates = 0)) => NewestFirst(proc[p].out)

\* C12 (file names).  Two saves that both succeeded have put their files at
\* distinct paths of the managed directory.
C12_DistinctDestinations ==
    \A p, q \in Procs :
        (/\ p # q
         /\ Done(p, "save") /\ proc[p].res = "ok"
         /\ Done(q, "save") /\ proc[q].res = "ok") =>
            proc[p].ent.uri # proc[q].ent.uri

\* ------------------------------------------------------ session properties
HDone(h, op) == hs[h].op = op /\ hs[h].pc = "done"

\* The caller was told of a failure: an alert was shown or the call threw.
Reported(res) == res \in {"alert", "noActive", "rejected", "error"}

\* C13 (invalid transitions).  A pause() called while the session holds no
\* capture fails, which the caller is told, and the session stays idle.
C13_PauseWhenIdleFails ==
    \A h \in Handlers :
        (HDone(h, "pause") /\ hs[h].pre.handle = 0) =>
            /\ Reported(hs[h].res)
            /\ handle = 0
            /\ ~ui.isRecording

\* C14 (one capture).  A start() issued while a capture is active is
\* rejected, and the app still holds the handle of the active capture.
C14_SecondStartRejected ==
    \A h \in Handlers :
        (/\ HDone(h, "start")
         /\ hs[h].pre.handle # 0
         /\ Active(objs[hs[h].pre.handle])) =>
            /\ hs[h].res # "ok"
            /\ handle = hs[h].pre.handle

\* C15 (failed begin).  After a start that failed at any of its steps, made
\* while no capture handle was held, no capture handle is held.
C15_FailedStartLeavesNoHandle ==
    \A h \in Handlers :
        (HDone(h, "start") /\ hs[h].res # "ok" /\ hs[h].pre.handle = 0) =>
            handle # hs[h].obj

\* C16 (cleanup).  audioService.cleanup never throws to its caller, whatever
\* the session is doing and whichever device call fails.
C16_CleanupNeverThrows ==
    \A h \in Handlers : hs[h].clres # "threw"

\* C16 witness: a cleanup called while a stop was in progress has returned
\* although its device call threw.
C16_Witness ==
    /\ HDone("h2", "cleanup")
    /\ hs["h2"].fault = "cl_stop"
    /\ hs["h2"].clres = "returned"
    /\ hs["h1"].op = "stop"
    /\ hs["h1"].pc \notin {"idle", "done"}

\* C16, other cases reached too: cleanup returned when idle, and after a
\* start that failed.
C16_WitnessIdle ==
    /\ HDone("h2", "cleanup")
    /\ hs["h2"].pre.handle = 0
    /\ hs["h2"].clres = "returned"

C16_WitnessAfterFailedStart ==
    /\ HDone("h2", "cleanup")
    /\ hs["h2"].clres = "returned"
    /\ HDone("h1", "start")
    /\ hs["h1"].res = "alert"
    /\ hs["h2"].pre.handle = hs["h1"].obj

\* The save a finished stop handler of record.tsx made.
SaveOf(h) == proc["p1"]

\* What C17 says of a finish() apart from the duration: it ends saved, the
\* index has exactly one new entry, which is first, has the kind of the
\* session and a file size above 0; the entries behind it were in the index
\* before, and every entry whose file was there is among them.
FinishSavesOne(h) ==
    /\ hs[h].res = "ok"
    /\ SaveOf(h).op = "save" /\ SaveOf(h).pc = "done" /\ SaveOf(h).res = "ok"
    /\ index # <<>>
    /\ Head(index) = SaveOf(h).ent
    /\ Len(Tail(index)) <= Len(SaveOf(h).pre.index)
    /\ Range(Tail(index)) \subseteq Range(SaveOf(h).pre.index)
    /\ Range(ListView(SaveOf(h).pre.index, SaveOf(h).pre.files)) \subseteq Range(Tail(index))
    /\ Head(index).type = hs[h].kind
    /\ Head(index).fileSize > 0

StopPcs == {"sp_stop", "sp_status", "sp_info", "sp_mode"}

\* C18 (failed finish).  When a sub-step of finish() failed (the device
\* stop or the save of the capture), the caller is told of the failure.
C18_FailedFinishReported ==
    \A h \in Handlers :
        (HDone(h, "stop") /\ (hs[h].fault \in StopPcs \/ hs[h].saveRes = "error")) =>
            Reported(hs[h].res)

\* C19 (minimum duration).  In RecordScreen.js a finish() of a capture whose
\* elapsed time is below MIN_RECORDING_DURATION is rejected: the capture is
\* discarded, there is no recording result, and the index is what it was.
C19_ShortCaptureRejected ==
    \A h \in Handlers :
        (/\ impl = "service"
         /\ HDone(h, "stop")
         /\ hs[h].pre.devMs < MIN_RECORDING_DURATION * 1000) =>
            /\ hs[h].res = "rejected"
            /\ ui.result = NoResult
            /\ index = hs[h].pre.index
            /\ handle = 0
            /\ \A o \in ObjIds : ~Active(objs[o])

\* C19 witness: a finish() was rejected after the device had reported an
\* elapsed time above 0 and below the minimum, on a store holding an entry.
C19_Witness ==
    \E h \in Handlers :
        /\ impl = "service"
        /\ HDone(h, "stop")
        /\ hs[h].pre.devMs > 0
        /\ hs[h].pre.devMs < MIN_RECORDING_DURATION * 1000
        /\ hs[h].pre.handle # 0
        /\ hs[h].res = "rejected"
        /\ index # <<>>

\* C20 (terminal states).  Once finish() has ended, saved or failed, the
\* capture handle it acted on is no longer held; and in record.tsx
\* isRecording = false implies recording.current = null.
C20_TerminalHoldsNoHandle ==
    /\ \A h \in Handlers :
           (HDone(h, "stop") /\ hs[h].obj # 0 /\ hs[h].res \in {"ok", "silent", "alert"}) =>
               handle # hs[h].obj
    /\ (impl = "utils" /\ ~ui.isRecording) => handle = 0

\* C21 (duration timer).  In record.tsx, whenever no handler is in progress,
\* exactly one interval timer is live if the session is recording and not
\* paused, and none is live otherwise.
C21_OneTimerWhileRecording ==
    (impl = "utils" /\ \A h \in Handlers : HQuiet(h)) =>
        ui.timers = (IF ui.isRecording /\ ~ui.isPaused THEN 1 ELSE 0)

\* C22 (spectrogram).  generateSpectrogram on a buffer of L >= fftSize
\* samples, fftSize a power of two and at least 2, returns
\* floor((L - fftSize) / hopSize) + 1 frames, each of fftSize / 2 values,
\* and every value is in [0, 1].
C22_SpectrogramShape ==
    (/\ dsp.pc = "done" /\ dsp.fn = "generateSpectrogram"
     /\ dsp.L >= dsp.fftSize
     /\ dsp.fftSize >= 2 /\ IsPowerOfTwo(dsp.fftSize)) =>
        /\ dsp.res = "ok"
        /\ dsp.frames = (dsp.L - dsp.fftSize) \div dsp.hopSize + 1
        /\ dsp.lens = {dsp.fftSize \div 2}
        /\ \A v \in dsp.values : 0 <= v /\ v <= 100

\* C22 witness: two frames of four values were returned for nine samples,
\* levels below the floor and above the ceiling among them.
C22_Witness ==
    /\ dsp.pc = "done" /\ dsp.fn = "generateSpectrogram"
    /\ dsp.L = 9 /\ dsp.fftSize = 8 /\ dsp.hopSize = 1
    /\ dsp.frames = 2 /\ dsp.lens = {4}
    /\ {-200, 25} \subseteq dsp.levels
    /\ {0, 100} \subseteq dsp.values

\* C23 (invalid input).  getSpectrum with an fftSize that is not a power
\* of two, and generateSpectrogram on an empty buffer, fail.
C23_InvalidInputFails ==
    (/\ dsp.pc = "done"
     /\ \/ dsp.fn = "getSpectrum" /\ ~IsPowerOfTwo(dsp.fftSize)
        \/ dsp.fn = "generateSpectrogram" /\ dsp.L = 0) =>
        dsp.res = "throw"

\* C23, the part the code keeps: an fftSize of 3 or more that is not a
\* power of two makes getSpectrum throw.
C23_OddSizesThrow ==
    (/\ dsp.pc = "done" /\ dsp.fn = "getSpectrum"
     /\ dsp.fftSize >= 3 /\ ~IsPowerOfTwo(dsp.fftSize)) =>
        dsp.res = "throw"

\* C24 (re-analysis).  After an analysis of a recording that was stored, the
\* entries with its id carry the latest result, in the index and in the
\* global state, no entry was added, and every other entry is what it was.
C24_ReanalysisOverwrites ==
    (app.analysis.pc = "done" /\ Done("p1", "update")) =>
        LET a   == app.analysis
            pre == proc["p1"].pre
        IN /\ \A e \in Range(index) : e.id = a.id => e.analysisResult = a.result
           /\ \A e \in Range(app.recordings) : e.id = a.id => e.analysisResult = a.result
           /\ Len(index) <= Len(pre.index)
           /\ Len(app.recordings) = Len(a.pre)
           /\ \A k \in 1..Len(a.pre) :
                  app.recordings[k] = IF a.pre[k].id = a.id
                                      THEN [a.pre[k] EXCEPT !.analysisResult = a.result]
                                      ELSE a.pre[k]
           /\ \A e \in Range(index) : e.id # a.id => e \in Range(pre.index)
           /\ Undisturbed("p1") =>
                  \A e \in Range(pre.index) :
                      e.uri \in pre.files =>
                          (IF e.id = a.id THEN [e EXCEPT !.analysisResult = a.result]
                           ELSE e) \in Range(index)

\* C24 witness: a recording analysed before (r1) was analysed again (r2);
\* the index holds it with r2 and another recording still without a result.
C24_Witness ==
    /\ app.analysis.pc = "done" /\ Done("p1", "update")
    /\ app.analysis.result = "r2"
    /\ \E e \in Range(proc["p1"].pre.index) :
          e.id = app.analysis.id /\ e.analysisResult = "r1"
    /\ \E e \in Range(index) : e.id = app.analysis.id /\ e.analysisResult = "r2"
    /\ \E e \in Range(index) : e.id # app.analysis.id /\ e.analysisResult = "none"
    /\ \E e \in Range(app.recordings) : e.id # app.analysis.id /\ e.analysisResult = "none"

\* C25 (stop duration).  In the stethoscope flow a stop that returned a
\* result carries the elapsed time the device reported, a positive one for a
\* capture that ran, and no saved stethoscope entry has duration 0.
C25_StopReturnsDeviceDuration ==
    impl = "service" =>
        /\ \A h \in Handlers :
              (HDone(h, "stop") /\ hs[h].res = "ok" /\ hs[h].obj # 0) =>
                  /\ hs[h].durMs >= hs[h].pre.devMs
                  /\ hs[h].pre.devMs > 0 => hs[h].durMs > 0
        /\ \A e \in Range(index) : e.type = "stethoscope" => e.duration > 0

\* C26 (failed read).  In utils/storage, a saveRecordingMetadata or an
\* updateRecording during which reading the index or checking a file threw
\* fails, and the index keeps every entry it had before the call.
C26_FailedReadKeepsIndex ==
    \A p \in SeqProcs :
        (/\ impl = "utils"
         /\ proc[p].op \in {"save", "update"} /\ proc[p].pc = "done"
         /\ proc[p].fault \in {"gr_read", "gr_check"}) =>
            /\ proc[p].res = "error"
            /\ Range(proc[p].pre.index) \subseteq Range(index)

\* C27 (pruning and save).  When a listing and a save that ran at the same
\* time have both returned, the save successfully, the index holds the saved
\* entry as long as its file is there.
C27_PruneKeepsConcurrentSave ==
    (/\ Done("p1", "list")
     /\ Done("p2", "save") /\ proc["p2"].res = "ok"
     /\ proc["p2"].ent.uri \in files) =>
        proc["p2"].ent \in Range(index)

\* C28 (initialize and save).  When an initialize() and a saveRecording that
\* ran at the same time have both returned, the save successfully, the index
\* holds the saved entry.
C28_InitializeKeepsConcurrentSave ==
    (/\ Done("p1", "initialize")
     /\ Done("p2", "save") /\ proc["p2"].res = "ok") =>
        proc["p2"].ent \in Range(index)

\* C29 (cleanup releases).  At the moment audioService.cleanup() returns, the
\* module holds neither a recording nor a sound, whether or not the stop and
\* the unload succeeded.
C29_CleanupReleasesBoth ==
    [][\A h \in Handlers :
          (hs'[h] # hs[h] /\ hs'[h].pc = "done" /\ hs'[h].clres = "returned") =>
              (handle' = 0 /\ ~sound')]_vars

\* C30 (persisted recordings).  Once the persistState runs that follow a
\* DELETE_RECORDING have ended, what is persisted under 'recordings' is the
\* in-memory list; nothing is persisted after the only recording was deleted.
C30_PersistFollowsDelete ==
    (app.last = "DELETE_RECORDING" /\ app.run = <<>>) => app.doc = app.recordings

\* C30, the part that holds: a list that is not empty after the deletion is
\* what is persisted.
C30_NonEmptyListPersisted ==
    (app.last = "DELETE_RECORDING" /\ app.run = <<>> /\ app.recordings # <<>>) =>
        app.doc = app.recordings

====
